---- MODULE Spec2Model ----
(***************************************************************************)
(* Volunteer-Tokens: the volunteer ledger (util/hours.py) and the batch    *)
(* update add_hours_with_notifications, as driven by the Slack view        *)
(* handlers of slack_app.py.                                               *)
(*                                                                         *)
(* Hours are whole numbers here; a period is the pair <<year, month>> that *)
(* strftime("%Y-%m") keeps of a date.  util/tidyhq.py is not part of the   *)
(* sources: the directory is modelled from its interface (resolve a Slack  *)
(* id to a contact id, look a contact up, take a fresh snapshot).          *)
(***************************************************************************)
EXTENDS Integers, Sequences, FiniteSets, Bags, TLC

\* ------------------------------------------------------------------ bounds

\* Cap on the hours and on the debt recorded for one contact.
MaxHours == 3

\* ----------------------------------------------------------- configuration

\* Slack number input of the modals: min_value "0".
MinHoursInput == 0

\* Hour values a modal submits.
HourInputs == MinHoursInput..2

\* Dates the date picker submits: two days of one month, one of the next.
Dates == { [year |-> 2025, month |-> 12, day |-> 1],
           [year |-> 2025, month |-> 12, day |-> 31],
           [year |-> 2026, month |-> 1, day |-> 15] }

\* Slack user ids: UA is linked to contact "1" from the start, UC gets linked
\* to the same contact later, UX is never linked.
Handles == {"UA", "UC", "UX"}

None == "None"

\* rewards.json as read from disk: threshold keys in file order, and the
\* thresholds whose descriptor names a reward function.
RewardsJson == [monthly |-> <<2, 1>>, cumulative |-> <<3, 2>>]

RewardFunction == [monthly |-> {2}, cumulative |-> {}]

Ascending(a, b) == a < b

\* The reward keys left in file order.
rewards_in_file_order == RewardsJson

\* slack_app.py: reward keys converted to int and sorted at load.
rewards == [monthly |-> SortSeq(RewardsJson.monthly, Ascending),
            cumulative |-> SortSeq(RewardsJson.cumulative, Ascending)]

\* hours.json as loaded at start-up: one contact with hours, without Slack link.
InitialHours == "7" :> [name |-> "N7", months |-> (<<2025, 12>> :> 2), debt |-> 0]

\* ---------------------------------------------------------------- directory

\* The TidyHQ directory at start-up, and after UC has linked their Slack account.
Directory0 == [contacts |-> {"1", "7"},
               slack |-> [h \in Handles |-> IF h = "UA" THEN "1" ELSE None],
               admin |-> {"7"}]

Linkable == [UC |-> "1"]

map_slack_to_tidyhq(tidyhq_cache, slack_id) == tidyhq_cache.slack[slack_id]

get_contact(contact_id, tidyhq_cache) == contact_id \in tidyhq_cache.contacts

format_contact(contact_id) == "N" \o contact_id

\* The contact is in one of the admin groups of the configuration.
check_for_groups(contact_id, tidyhq_cache) == contact_id \in tidyhq_cache.admin

\* ------------------------------------------------------------------- state

VARIABLES
    volunteer_hours,  \* the in-memory ledger: contact id -> [name, months] or
                      \* [name, months, debt] once debt has been added
    hours_json,       \* the file hours.json: <<ledger>>, or <<>> when cut short
    tidyhq_cache,     \* the global directory snapshot
    tidyhq_live,      \* the directory as TidyHQ holds it
    call,             \* per listener thread: the running add_hours_with_notifications
    unlocked,         \* bag of the unlock DMs sent since start-up
    contributed,      \* contact id -> sum of the non-debt hours add_hours applied
    view              \* the statistics modal last opened

vars == <<volunteer_hours, hours_json, tidyhq_cache, tidyhq_live, call,
          unlocked, contributed, view>>

Threads == {1, 2}

NoView == [kind |-> "none"]

NoPeriod == <<0, 0>>

NoDate == [year |-> 0, month |-> 0, day |-> 0]

IdleCall == [pc |-> "idle", changes |-> <<>>, volunteer_date |-> NoDate,
             debt |-> FALSE, i |-> 1, tidyhq_cache |-> Directory0,
             cache_refreshed |-> FALSE, tidyhq_id |-> None,
             successful |-> <<>>, failed |-> <<>>,
             dm |-> <<>>, admin |-> <<>>, rewarded |-> <<>>, applied |-> <<>>,
             refreshes |-> 0, lookups |-> 0, send_to_channel |-> TRUE]

\* ----------------------------------------------------------------- ledger

strftime(date) == <<date.year, date.month>>

RECURSIVE SumOver(_, _)
SumOver(f, S) ==
    IF S = {} THEN 0
    ELSE LET k == CHOOSE x \in S : TRUE IN f[k] + SumOver(f, S \ {k})

\* The record looked up without the test for its presence: the failed lookup
\* of a contact without record is marked by -1.
get_total_without_guard(tidyhq_id, vh) ==
    IF tidyhq_id \notin DOMAIN vh THEN 0 - 1
    ELSE SumOver(vh[tidyhq_id].months, DOMAIN vh[tidyhq_id].months)

get_total(tidyhq_id, vh) ==
    IF tidyhq_id \notin DOMAIN vh THEN 0
    ELSE SumOver(vh[tidyhq_id].months, DOMAIN vh[tidyhq_id].months)

get_specific_month(tidyhq_id, vh, month) ==
    IF tidyhq_id \notin DOMAIN vh THEN 0
    ELSE IF strftime(month) \in DOMAIN vh[tidyhq_id].months
         THEN vh[tidyhq_id].months[strftime(month)]
         ELSE 0

\* The difference returned without the floor.
MaxUnfloored(a, b) == a

Max(a, b) == IF a > b THEN a ELSE b

\* record.get("debt", 0)
DebtOf(record) == IF "debt" \in DOMAIN record THEN record.debt ELSE 0

get_debt(tidyhq_id, vh) ==
    IF tidyhq_id \notin DOMAIN vh THEN 0
    ELSE Max(DebtOf(vh[tidyhq_id]) - get_total(tidyhq_id, vh), 0)

\* The dump leaving out the records that hold no month yet.
json_dump_of_recorded(vh) ==
    <<[tidyhq_id \in {x \in DOMAIN vh : vh[x].months # <<>>} |-> vh[tidyhq_id]]>>

\* with open("hours.json", "w") as f: json.dump(volunteer_hours, f): the file
\* holds the whole ledger and nothing of what it held before.
json_dump(vh) == <<vh>>

\* Only the new record returned instead of the ledger with it.
generate_new_returning_the_record(tidyhq_id, vh, cache) ==
    IF tidyhq_id \in DOMAIN vh THEN vh
    ELSE IF ~get_contact(tidyhq_id, cache) THEN vh
    ELSE tidyhq_id :> [name |-> format_contact(tidyhq_id), months |-> <<>>]

\* generate_new up to its write: the ledger with a record for the contact.
generate_new(tidyhq_id, vh, cache) ==
    IF tidyhq_id \in DOMAIN vh THEN vh
    ELSE IF ~get_contact(tidyhq_id, cache) THEN vh
    ELSE vh @@ (tidyhq_id :> [name |-> format_contact(tidyhq_id),
                              months |-> <<>>])

\* The bucket set to the hours instead of grown by them.
AddToMonthOverwriting(months, record_str, hours_volunteered) ==
    LET present == IF record_str \in DOMAIN months
                   THEN months ELSE months @@ (record_str :> 0)
    IN  [present EXCEPT ![record_str] = hours_volunteered]

\* The months mapping replaced by one with the record's month only.
AddToMonthFresh(months, record_str, hours_volunteered) ==
    record_str :> ((IF record_str \in DOMAIN months THEN months[record_str] ELSE 0)
                   + hours_volunteered)

\* The months mapping after add_hours' non-debt branch.
AddToMonth(months, record_str, hours_volunteered) ==
    LET present == IF record_str \in DOMAIN months
                   THEN months ELSE months @@ (record_str :> 0)
    IN  [present EXCEPT ![record_str] = @ + hours_volunteered]

\* Debt added to the month like hours.
add_hours_counting_debt_as_hours(tidyhq_id, vh, hours_volunteered, volunteer_date, debt) ==
    [vh EXCEPT ![tidyhq_id].months =
        AddToMonth(@, strftime(volunteer_date), hours_volunteered)]

\* add_hours up to its write, on a ledger that holds the contact.
add_hours(tidyhq_id, vh, hours_volunteered, volunteer_date, debt) ==
    IF debt
    THEN [vh EXCEPT ![tidyhq_id] =
              [name |-> @.name, months |-> @.months,
               debt |-> DebtOf(@) + hours_volunteered]]
    ELSE [vh EXCEPT ![tidyhq_id].months =
              AddToMonth(@, strftime(volunteer_date), hours_volunteered)]

\* ------------------------------------------------------- crossing detection

\* The comparison with the lower bound included.
CrossedFromAtOrAbove(tiers, current_hours, hours) ==
    SelectSeq(tiers, LAMBDA reward :
        current_hours <= reward /\ reward <= current_hours + hours)

\* The comparison with hours read after they were added.
CrossedAfterAdding(tiers, current_hours, hours) ==
    SelectSeq(tiers, LAMBDA reward :
        current_hours + hours < reward /\ reward <= current_hours + hours + hours)

\* for reward in rewards[scope]: if current_hours < reward <= current_hours + hours
Crossed(tiers, current_hours, hours) ==
    SelectSeq(tiers, LAMBDA reward :
        current_hours < reward /\ reward <= current_hours + hours)

UnlockKey(tidyhq_id, scope, period, reward) == <<tidyhq_id, scope, period, reward>>

\* One unlock DM for an item, about the highest tier it crossed.
UnlockDMsForLast(volunteer, scope, crossed) ==
    IF crossed = <<>> THEN <<>>
    ELSE <<[to |-> volunteer, kind |-> "unlock", scope |-> scope,
            hours |-> crossed[Len(crossed)]]>>

\* Lines 237-246, 289-298: one unlock DM per crossed tier.
RECURSIVE UnlockDMs(_, _, _)
UnlockDMs(volunteer, scope, crossed) ==
    IF crossed = <<>> THEN <<>>
    ELSE <<[to |-> volunteer, kind |-> "unlock", scope |-> scope,
            hours |-> Head(crossed)]>>
         \o UnlockDMs(volunteer, scope, Tail(crossed))

\* Per crossed tier: the notice to the admin channel and, when the tier has a
\* reward function and it fails (raises or returns False), the warning.
RECURSIVE AdminNotices(_, _, _, _)
AdminNotices(volunteer, scope, crossed, reward_outcome) ==
    IF crossed = <<>> THEN <<>>
    ELSE <<[kind |-> "unlock", who |-> volunteer, scope |-> scope,
            hours |-> Head(crossed)]>>
         \o (IF Head(crossed) \in RewardFunction[scope] /\ ~reward_outcome
             THEN <<[kind |-> "reward_failed", who |-> volunteer,
                     scope |-> scope, hours |-> Head(crossed)]>>
             ELSE <<>>)
         \o AdminNotices(volunteer, scope, Tail(crossed), reward_outcome)

\* The reward functions called for the crossed tiers that name one.
RECURSIVE RewardCalls(_, _, _)
RewardCalls(tidyhq_id, scope, crossed) ==
    IF crossed = <<>> THEN <<>>
    ELSE (IF Head(crossed) \in RewardFunction[scope]
          THEN <<[tidyhq_id |-> tidyhq_id, scope |-> scope, hours |-> Head(crossed)]>>
          ELSE <<>>)
         \o RewardCalls(tidyhq_id, scope, Tail(crossed))

\* The exception of a reward function not caught.
AfterRewardFunctionUncaught(next_pc, failed) ==
    IF failed THEN "raised" ELSE next_pc

\* try / except Exception around reward_func: a failure sets reward_outcome
\* to False and the checks go on.
AfterRewardFunction(next_pc, failed) == next_pc

RECURSIVE UnlockBag(_, _, _, _)
UnlockBag(tidyhq_id, scope, period, crossed) ==
    IF crossed = <<>> THEN EmptyBag
    ELSE SetToBag({UnlockKey(tidyhq_id, scope, period, Head(crossed))})
         (+) UnlockBag(tidyhq_id, scope, period, Tail(crossed))

\* ------------------------------------------------------- identity resolution

fresh_cache(live) == live

\* The refresh repeated for every item that fails its first lookup.
ResolutionRefreshingPerItem(cache, cache_refreshed, live, volunteer) ==
    LET first   == map_slack_to_tidyhq(cache, volunteer)
        refresh == first = None
        fresh   == IF refresh THEN fresh_cache(live) ELSE cache
    IN  [tidyhq_id       |-> IF refresh THEN map_slack_to_tidyhq(fresh, volunteer)
                             ELSE first,
         tidyhq_cache    |-> fresh,
         cache_refreshed |-> cache_refreshed \/ refresh,
         refreshes       |-> IF refresh THEN 1 ELSE 0,
         lookups         |-> IF refresh THEN 2 ELSE 1]

\* One item's resolution: the first lookup and, when it fails and the call has
\* not refreshed yet, the forced refresh and the second lookup.
Resolution(cache, cache_refreshed, live, volunteer) ==
    LET first   == map_slack_to_tidyhq(cache, volunteer)
        refresh == first = None /\ ~cache_refreshed
        fresh   == IF refresh THEN fresh_cache(live) ELSE cache
    IN  [tidyhq_id       |-> IF refresh THEN map_slack_to_tidyhq(fresh, volunteer)
                             ELSE first,
         tidyhq_cache    |-> fresh,
         cache_refreshed |-> cache_refreshed \/ refresh,
         refreshes       |-> IF refresh THEN 1 ELSE 0,
         lookups         |-> IF refresh THEN 2 ELSE 1]

\* ------------------------------------------------------------ batch inputs

Injective(s) == \A a, b \in DOMAIN s : s[a] = s[b] => a = b

\* selected_users of the multi-user select of a modal.
SelectedUsers ==
    {s \in UNION {[1..n -> Handles] : n \in 1..Cardinality(Handles)} : Injective(s)}

\* Contacts a Slack id resolves to now or once linked.
MayResolveTo(slack_id) ==
    {Directory0.slack[slack_id]} \cup
    (IF slack_id \in DOMAIN Linkable THEN {Linkable[slack_id]} ELSE {})

\* Items of a call that add_hours has not yet been called for.
Remaining(c) ==
    IF c.pc \in {"resolve", "monthly", "cumulative", "apply"} THEN c.i..Len(c.changes)
    ELSE IF c.pc = "ack" THEN (c.i + 1)..Len(c.changes)
    ELSE {}

RECURSIVE PendingFor(_, _, _)
PendingFor(tidyhq_id, c, S) ==
    IF S = {} THEN 0
    ELSE LET k == CHOOSE x \in S : TRUE
         IN  (IF tidyhq_id \in MayResolveTo(c.changes[k][1])
              THEN c.changes[k][2] ELSE 0)
             + PendingFor(tidyhq_id, c, S \ {k})

Pending(tidyhq_id, debt) ==
    LET of(t) == IF call[t].debt = debt
                 THEN PendingFor(tidyhq_id, call[t], Remaining(call[t])) ELSE 0
    IN  of(1) + of(2)

StoredDebt(tidyhq_id) ==
    IF tidyhq_id \in DOMAIN volunteer_hours
    THEN DebtOf(volunteer_hours[tidyhq_id]) ELSE 0

\* The model's cap: the submitted batch keeps every contact within MaxHours.
WithinCap(changes, debt) ==
    \A tidyhq_id \in Directory0.contacts :
        LET new == [pc |-> "resolve", changes |-> changes, i |-> 1]
            add == PendingFor(tidyhq_id, new, 1..Len(changes))
        IN  (IF debt THEN StoredDebt(tidyhq_id)
             ELSE get_total(tidyhq_id, volunteer_hours))
            + Pending(tidyhq_id, debt) + add <= MaxHours

\* ------------------------------------------------------------------ actions

Init ==
    /\ volunteer_hours = InitialHours
    /\ hours_json = <<InitialHours>>
    /\ tidyhq_cache = Directory0
    /\ tidyhq_live = Directory0
    /\ call = [t \in Threads |-> IdleCall]
    /\ unlocked = EmptyBag
    /\ contributed = [id \in Directory0.contacts |-> 0]
    /\ view = NoView

\* A member links their Slack account in TidyHQ.
LinkSlack ==
    /\ \E slack_id \in DOMAIN Linkable :
          /\ tidyhq_live.slack[slack_id] = None
          /\ tidyhq_live' = [tidyhq_live EXCEPT !.slack[slack_id] = Linkable[slack_id]]
    /\ UNCHANGED <<volunteer_hours, hours_json, tidyhq_cache, call, unlocked,
                   contributed, view>>

\* add_hours_with_notifications is entered with the handler's changes.
Enter(t, volunteers, hours_volunteered, date, debt, send_to_channel) ==
    LET changes == [k \in 1..Len(volunteers) |-> <<volunteers[k], hours_volunteered>>]
    IN  /\ call[t].pc = "idle"
        /\ WithinCap(changes, debt)
        /\ call' = [call EXCEPT ![t] =
               [IdleCall EXCEPT !.pc = "resolve", !.changes = changes,
                                !.volunteer_date = date, !.debt = debt,
                                !.send_to_channel = send_to_channel,
                                !.tidyhq_cache = tidyhq_cache]]
        /\ UNCHANGED <<volunteer_hours, hours_json, tidyhq_cache, tidyhq_live,
                       unlocked, contributed, view>>

\* slack_app.py handle_hours_submission: the same hours for every selected user.
handle_hours_submission(t) ==
    \E volunteers \in SelectedUsers, hours_volunteered \in HourInputs, date \in Dates :
        Enter(t, volunteers, hours_volunteered, date, FALSE, TRUE)

\* slack_app.py handle_debt_submission: the same, with debt=True.
handle_debt_submission(t) ==
    \E volunteers \in SelectedUsers, hours_volunteered \in HourInputs, date \in Dates :
        Enter(t, volunteers, hours_volunteered, date, TRUE, TRUE)

\* handle_hours_submission for one selected user and at least an hour.
handle_hours_submission_for_one(t) ==
    \E volunteer \in Handles, hours_volunteered \in HourInputs \ {0}, date \in Dates :
        Enter(t, <<volunteer>>, hours_volunteered, date, FALSE, TRUE)

\* slack_app.py handle_training_tracker_messages, a time_debt message.
\* slack_id is the Slack id of the payload or, without one, what
\* map_tidyhq_to_slack finds for the payload's contact.  With a Slack id:
\* debt for one user, without the summary of the call.  Without: a warning in
\* the admin channel and no call.
handle_training_tracker_messages(t) ==
    \E slack_id \in Handles \cup {None}, debt \in HourInputs, date \in Dates :
        IF slack_id # None
        THEN Enter(t, <<slack_id>>, debt, date, TRUE, FALSE)
        ELSE /\ call[t].pc = "idle"
             /\ call' = [call EXCEPT ![t] =
                    [IdleCall EXCEPT !.pc = "replied", !.debt = TRUE,
                                     !.send_to_channel = FALSE,
                                     !.tidyhq_cache = tidyhq_cache,
                                     !.admin = <<[kind |-> "warning", who |-> <<>>,
                                                  scope |-> "debt", hours |-> debt]>>]]
             /\ UNCHANGED <<volunteer_hours, hours_json, tidyhq_cache, tidyhq_live,
                            unlocked, contributed, view>>

\* The loop's next position: the next item, or the summary after the last.
Advance(c) ==
    [c EXCEPT !.i = @ + 1,
              !.pc = IF c.i + 1 > Len(c.changes) THEN "summary" ELSE "resolve"]

\* The unresolved item failed without the continue: the reward checks follow.
UnresolvedFallingThrough(c, volunteer) ==
    [c EXCEPT !.failed = Append(@, volunteer), !.pc = "monthly"]

\* The reward checks entered for debt as well.
AfterResolvedAlwaysChecking(debt) == "monthly"

\* Line 233, if not debt: the reward checks are skipped when adding debt.
AfterResolved(debt) == IF debt THEN "apply" ELSE "monthly"

\* Lines 216-222: the unresolved item is failed and the loop continues.
Unresolved(c, volunteer) ==
    Advance([c EXCEPT !.failed = Append(@, volunteer)])

\* Lines 194-222: resolve the item's Slack id; an unresolved one is failed.
Resolve(t) ==
    LET c == call[t]
        volunteer == c.changes[c.i][1]
        r == Resolution(c.tidyhq_cache, c.cache_refreshed, tidyhq_live, volunteer)
        looked == [c EXCEPT !.tidyhq_cache = r.tidyhq_cache,
                            !.cache_refreshed = r.cache_refreshed,
                            !.refreshes = @ + r.refreshes,
                            !.lookups = r.lookups,
                            !.tidyhq_id = r.tidyhq_id]
    IN  /\ c.pc = "resolve"
        /\ call' = [call EXCEPT ![t] =
               IF r.tidyhq_id = None
               THEN Unresolved(looked, volunteer)
               ELSE [looked EXCEPT !.pc = AfterResolved(c.debt)]]
        /\ UNCHANGED <<volunteer_hours, hours_json, tidyhq_cache, tidyhq_live,
                       unlocked, contributed, view>>

\* One scope's reward check of lines 234-339 against the value read from the ledger.
Detect(t, scope, period, current_hours, next_pc) ==
    LET c == call[t]
        volunteer == c.changes[c.i][1]
        hours == c.changes[c.i][2]
        crossed == Crossed(rewards[scope], current_hours, hours)
        calls == RewardCalls(c.tidyhq_id, scope, crossed)
    IN  \E reward_outcome \in BOOLEAN :
          /\ call' = [call EXCEPT ![t] =
                 [c EXCEPT !.dm = @ \o UnlockDMs(volunteer, scope, crossed),
                           !.admin = @ \o AdminNotices(volunteer, scope, crossed,
                                                       reward_outcome),
                           !.rewarded = @ \o calls,
                           !.pc = AfterRewardFunction(next_pc,
                                      calls # <<>> /\ ~reward_outcome)]]
          /\ unlocked' = unlocked (+) UnlockBag(c.tidyhq_id, scope, period, crossed)
          /\ UNCHANGED <<volunteer_hours, hours_json, tidyhq_cache, tidyhq_live,
                         contributed, view>>

\* Lines 228-283: the month's hours and the monthly rewards.
DetectMonthly(t) ==
    /\ call[t].pc = "monthly"
    /\ Detect(t, "monthly", strftime(call[t].volunteer_date),
              get_specific_month(call[t].tidyhq_id, volunteer_hours,
                                 call[t].volunteer_date),
              "cumulative")

\* Lines 286-339: the all-time total and the cumulative rewards.
DetectCumulative(t) ==
    /\ call[t].pc = "cumulative"
    /\ Detect(t, "cumulative", NoPeriod,
              get_total(call[t].tidyhq_id, volunteer_hours), "apply")

\* Lines 341-348: add_hours, with both of its writes of hours.json succeeding.
ApplyHours(t) ==
    LET c == call[t]
        volunteer == c.changes[c.i][1]
        hours == c.changes[c.i][2]
        created == generate_new(c.tidyhq_id, volunteer_hours, c.tidyhq_cache)
    IN  /\ c.pc = "apply"
        /\ IF c.tidyhq_id \notin DOMAIN created
           THEN \* volunteer_hours[tidyhq_id] raises KeyError
                /\ call' = [call EXCEPT ![t].pc = "raised"]
                /\ UNCHANGED <<volunteer_hours, hours_json, contributed>>
           ELSE LET added == add_hours(c.tidyhq_id, created, hours,
                                       c.volunteer_date, c.debt)
                IN  /\ volunteer_hours' = added
                    /\ hours_json' = json_dump(added)
                    /\ contributed' =
                           IF c.debt THEN contributed
                           ELSE [contributed EXCEPT ![c.tidyhq_id] = @ + hours]
                    /\ call' = [call EXCEPT ![t].pc = "ack",
                           ![t].applied = Append(@, [volunteer |-> volunteer,
                               tidyhq_id |-> c.tidyhq_id, hours |-> hours])]
        /\ UNCHANGED <<tidyhq_cache, tidyhq_live, unlocked, view>>

\* The success not recorded.
RecordSuccessDropped(c, volunteer) == c

\* Line 363: successful.append(volunteer)
RecordSuccess(c, volunteer) ==
    [c EXCEPT !.successful = Append(@, volunteer)]

\* What a failed open(..., "w") / json.dump leaves of a file: the old content
\* when the open failed, a cut-short file when the dump did.
AfterFailedWrite(file) == {file, <<>>}

\* Lines 341-348 when a write of hours.json raises: generate_new's write after
\* it has put the new record into the ledger, or add_hours' write after it has
\* added the hours.  Nothing catches the exception: it leaves the call and
\* the handler (pc "raised").
ApplyHoursWriteFails(t) ==
    LET c == call[t]
        hours == c.changes[c.i][2]
        created == generate_new(c.tidyhq_id, volunteer_hours, c.tidyhq_cache)
        added == add_hours(c.tidyhq_id, created, hours, c.volunteer_date, c.debt)
    IN  /\ c.pc = "apply"
        /\ c.tidyhq_id \in DOMAIN created
        /\ \/ /\ created # volunteer_hours
              /\ volunteer_hours' = created
              /\ hours_json' \in AfterFailedWrite(hours_json)
              /\ UNCHANGED contributed
           \/ /\ volunteer_hours' = added
              /\ hours_json' \in AfterFailedWrite(
                     IF created # volunteer_hours THEN json_dump(created) ELSE hours_json)
              /\ contributed' =
                     IF c.debt THEN contributed
                     ELSE [contributed EXCEPT ![c.tidyhq_id] = @ + hours]
        /\ call' = [call EXCEPT ![t].pc = "raised"]
        /\ UNCHANGED <<tidyhq_cache, tidyhq_live, unlocked, view>>

\* Lines 354-385: push the home view, record the success, tell the volunteer.
Acknowledge(t) ==
    LET c == call[t]
        volunteer == c.changes[c.i][1]
        hours == c.changes[c.i][2]
    IN  /\ c.pc = "ack"
        /\ call' = [call EXCEPT ![t] =
               Advance([RecordSuccess(c, volunteer) EXCEPT
                            !.dm = Append(@, [to |-> volunteer, kind |-> "ack",
                                scope |-> IF c.debt THEN "debt" ELSE "hours",
                                hours |-> hours])])]
        /\ UNCHANGED <<volunteer_hours, hours_json, tidyhq_cache, tidyhq_live,
                       unlocked, contributed, view>>

RECURSIVE FailureNotices(_)
FailureNotices(failed) ==
    IF failed = <<>> THEN <<>>
    ELSE <<[kind |-> "failed", who |-> <<Head(failed)>>, scope |-> "",
            hours |-> 0]>> \o FailureNotices(Tail(failed))

\* A summary of the whole batch posted for every call.
summary_of_every_handle(c) ==
    <<[kind |-> "summary", who |-> [k \in 1..Len(c.changes) |-> c.changes[k][1]],
       scope |-> IF c.debt THEN "debt" ELSE "hours", hours |-> 0]>>

\* Lines 390-400: the summary of the successes for the admin channel.
summary(c) ==
    IF c.successful # <<>> /\ c.send_to_channel
    THEN <<[kind |-> "summary", who |-> c.successful,
            scope |-> IF c.debt THEN "debt" ELSE "hours", hours |-> 0]>>
    ELSE <<>>

\* Lines 387-411: the summary and the failures for the admin channel.
Summarise(t) ==
    LET c == call[t]
    IN  /\ c.pc = "summary"
        /\ call' = [call EXCEPT ![t].pc = "done",
                                ![t].admin = @ \o summary(c) \o FailureNotices(c.failed)]
        /\ UNCHANGED <<volunteer_hours, hours_json, tidyhq_cache, tidyhq_live,
                       unlocked, contributed, view>>

\* handle_training_tracker_messages after the call: its own message to the
\* admin channel, in the thread of the tracker's message.
training_tracker_reply(t) ==
    LET c == call[t]
    IN  /\ c.pc = "done"
        /\ ~c.send_to_channel
        /\ call' = [call EXCEPT ![t].pc = "replied",
               ![t].admin = Append(@, [kind |-> "tracker_reply",
                   who |-> <<c.changes[1][1]>>, scope |-> "debt",
                   hours |-> c.changes[1][2]])]
        /\ UNCHANGED <<volunteer_hours, hours_json, tidyhq_cache, tidyhq_live,
                       unlocked, contributed, view>>

\* The call returns its cache, the handler makes it the global one and ends.
Return(t) ==
    /\ \/ call[t].pc = "done" /\ call[t].send_to_channel
       \/ call[t].pc = "replied"
    /\ tidyhq_cache' = call[t].tidyhq_cache
    /\ call' = [call EXCEPT ![t] = IdleCall]
    /\ UNCHANGED <<volunteer_hours, hours_json, tidyhq_live, unlocked,
                   contributed, view>>

\* slack_app.py handle_app_home_opened_events: the cache is refreshed when it
\* has expired, and a resolved user gets a ledger record.
handle_app_home_opened_events(t) ==
    \E user_id \in Handles, expired \in BOOLEAN :
        LET cache == IF expired THEN fresh_cache(tidyhq_live) ELSE tidyhq_cache
            tidyhq_id == map_slack_to_tidyhq(cache, user_id)
            created == IF tidyhq_id = None THEN volunteer_hours
                       ELSE generate_new(tidyhq_id, volunteer_hours, cache)
        IN  /\ call[t].pc = "idle"
            /\ tidyhq_cache' = cache
            /\ volunteer_hours' = created
            /\ hours_json' = IF created = volunteer_hours THEN hours_json
                             ELSE json_dump(created)
            /\ UNCHANGED <<tidyhq_live, call, unlocked, contributed, view>>

Listener(t) ==
    \/ handle_app_home_opened_events(t)
    \/ handle_hours_submission(t)
    \/ handle_debt_submission(t)
    \/ handle_training_tracker_messages(t)
    \/ training_tracker_reply(t)
    \/ Resolve(t)
    \/ DetectMonthly(t)
    \/ DetectCumulative(t)
    \/ ApplyHours(t)
    \/ Acknowledge(t)
    \/ Summarise(t)
    \/ Return(t)

\* Submissions handled one after another.
Next ==
    \/ LinkSlack
    \/ Listener(1)

Spec == Init /\ [][Next]_vars

\* Submissions handled one after another, writes of hours.json may fail.  The
\* listener is followed up to the exception that leaves its handler.
NextWriteFails ==
    \/ Next
    \/ ApplyHoursWriteFails(1)

SpecWriteFails == Init /\ [][NextWriteFails]_vars

\* ------------------------------------------------------- bulk submissions

\* modal_bulk_add_hours: the sections of the modal, numbered from 1.
ModalSections == 10

\* handle_bulk_hours_submission: while count <= 10.
SectionCount == 10

\* A section left as the modal shows it: nobody selected, no hours entered.
EmptySection == [selected_users |-> <<>>, value |-> <<>>]

\* What the admin enters in a section: nobody, one user or two, and no hours,
\* zero or a number of hours.
SectionInputs ==
    [selected_users : {<<>>, <<"UA">>, <<"UC">>, <<"UX", "UA">>},
     value : {<<>>} \cup {<<hours>> : hours \in 0..2}]

\* The sections the admin fills in: the first and the last.
FilledSections == {1, ModalSections}

\* float(data[...].get("value", 0))
hours_input(section) == IF section.value = <<>> THEN 0 ELSE section.value[1]

\* The hours of a section put in place of what the volunteer had.
RECURSIVE for_volunteer_in_volunteers_overwriting(_, _, _)
for_volunteer_in_volunteers_overwriting(changes, volunteers, hours_volunteered) ==
    IF volunteers = <<>> THEN changes
    ELSE LET volunteer == Head(volunteers)
             started == IF \E k \in DOMAIN changes : changes[k][1] = volunteer
                        THEN changes ELSE Append(changes, <<volunteer, 0>>)
             added == [k \in DOMAIN started |->
                          IF started[k][1] = volunteer
                          THEN <<volunteer, hours_volunteered>>
                          ELSE started[k]]
         IN  for_volunteer_in_volunteers_overwriting(added, Tail(volunteers),
                                                     hours_volunteered)

\* Lines 284-288: the hours of a section added for each of its volunteers.
\* changes is the dict, its items in the order of insertion.
RECURSIVE for_volunteer_in_volunteers(_, _, _)
for_volunteer_in_volunteers(changes, volunteers, hours_volunteered) ==
    IF volunteers = <<>> THEN changes
    ELSE LET volunteer == Head(volunteers)
             started == IF \E k \in DOMAIN changes : changes[k][1] = volunteer
                        THEN changes ELSE Append(changes, <<volunteer, 0>>)
             added == [k \in DOMAIN started |->
                          IF started[k][1] = volunteer
                          THEN <<volunteer, started[k][2] + hours_volunteered>>
                          ELSE started[k]]
         IN  for_volunteer_in_volunteers(added, Tail(volunteers), hours_volunteered)

\* Lines 270-290: the loop over the sections from count on.
RECURSIVE while_count(_, _, _)
while_count(data, count, changes) ==
    IF count > SectionCount THEN changes
    ELSE LET volunteers == data[count].selected_users
             hours_volunteered == hours_input(data[count])
         IN  IF volunteers = <<>> THEN while_count(data, count + 1, changes)
             ELSE IF hours_volunteered = 0
             THEN while_count(data, count + 1, changes)
             ELSE while_count(data, count + 1,
                      for_volunteer_in_volunteers(changes, volunteers,
                                                  hours_volunteered))

\* slack_app.py handle_bulk_hours_submission: the changes of all sections
\* collated, then add_hours_with_notifications entered with them.
handle_bulk_hours_submission(t) ==
    \E filled \in [FilledSections -> SectionInputs],
       date \in {date \in Dates : date.day = 1} :
        LET data == [count \in 1..ModalSections |->
                        IF count \in FilledSections THEN filled[count]
                        ELSE EmptySection]
            changes == while_count(data, 1, <<>>)
        IN  /\ call[t].pc = "idle"
            /\ WithinCap(changes, FALSE)
            /\ call' = [call EXCEPT ![t] =
                   [IdleCall EXCEPT !.pc = IF changes = <<>> THEN "summary"
                                           ELSE "resolve",
                                    !.changes = changes,
                                    !.volunteer_date = date,
                                    !.tidyhq_cache = tidyhq_cache]]
            /\ view' = [kind |-> "bulk", data |-> data]
            /\ UNCHANGED <<volunteer_hours, hours_json, tidyhq_cache, tidyhq_live,
                           unlocked, contributed>>

\* Bulk submissions handled one after another.
NextBulk ==
    \/ LinkSlack
    \/ handle_bulk_hours_submission(1)
    \/ Resolve(1)
    \/ DetectMonthly(1)
    \/ DetectCumulative(1)
    \/ ApplyHours(1)
    \/ Acknowledge(1)
    \/ Summarise(1)
    \/ Return(1)

SpecBulk == Init /\ [][NextBulk]_vars

\* Two listener threads of the Bolt app, each handling submissions of hours for
\* one user; the steps of their calls interleave.
ConcurrentListener(t) ==
    \/ handle_hours_submission_for_one(t)
    \/ Resolve(t)
    \/ DetectMonthly(t)
    \/ DetectCumulative(t)
    \/ ApplyHours(t)
    \/ Acknowledge(t)
    \/ Summarise(t)
    \/ Return(t)

NextConcurrent ==
    \/ LinkSlack
    \/ \E t \in Threads : ConcurrentListener(t)

SpecConcurrent == Init /\ [][NextConcurrent]_vars

\* Hour values handed to add_hours by a direct caller.
AnyHours == (0 - 1)..1

\* A contact id that the directory does not hold.
Unlisted == "9"

\* The direct call as the listener's record keeps it: the id it was for and
\* how it ended.
DirectCall(tidyhq_id, outcome) ==
    [IdleCall EXCEPT !.pc = outcome, !.tidyhq_id = tidyhq_id]

\* util.hours.add_hours called on the ledger with any contact id, any hours
\* and either value of debt; the model keeps what is stored between -1 and
\* MaxHours.  For an id generate_new gives no record, volunteer_hours[tidyhq_id]
\* raises KeyError before anything is assigned.
add_hours_called ==
    \E tidyhq_id \in Directory0.contacts \cup {Unlisted},
       hours_volunteered \in AnyHours, volunteer_date \in Dates, debt \in BOOLEAN :
        LET created == generate_new(tidyhq_id, volunteer_hours, tidyhq_cache)
            added == add_hours(tidyhq_id, created, hours_volunteered,
                               volunteer_date, debt)
            stored == IF debt THEN added[tidyhq_id].debt
                      ELSE added[tidyhq_id].months[strftime(volunteer_date)]
        IN  /\ IF tidyhq_id \notin DOMAIN created
               THEN /\ call' = [call EXCEPT ![1] = DirectCall(tidyhq_id, "raised")]
                    /\ UNCHANGED <<volunteer_hours, hours_json, contributed>>
               ELSE /\ stored \in (0 - 1)..MaxHours
                    /\ volunteer_hours' = added
                    /\ hours_json' = json_dump(added)
                    /\ contributed' =
                           IF debt THEN contributed
                           ELSE [contributed EXCEPT ![tidyhq_id] = @ + hours_volunteered]
                    /\ call' = [call EXCEPT ![1] = DirectCall(tidyhq_id, "added")]
            /\ UNCHANGED <<tidyhq_cache, tidyhq_live, unlocked, view>>

\* util.hours.generate_new called on the ledger with any contact id: it
\* returns in each of its three branches, having written hours.json when it
\* created a record.
generate_new_called ==
    \E tidyhq_id \in Directory0.contacts \cup {Unlisted} :
        LET created == generate_new(tidyhq_id, volunteer_hours, tidyhq_cache)
        IN  /\ volunteer_hours' = created
            /\ hours_json' = IF created = volunteer_hours THEN hours_json
                             ELSE json_dump(created)
            /\ call' = [call EXCEPT ![1] = DirectCall(tidyhq_id, "returned")]
            /\ UNCHANGED <<tidyhq_cache, tidyhq_live, unlocked, contributed, view>>

NextAddHours ==
    \/ add_hours_called
    \/ generate_new_called

SpecAddHours == Init /\ [][NextAddHours]_vars

\* -------------------------------------------------------------- statistics

\* A month counts for the badge streak from ten hours.
BadgeHours == 10

\* "YYYY-MM" keys compared as strings: by year, then by month.
PeriodBefore(a, b) == a[1] < b[1] \/ (a[1] = b[1] /\ a[2] < b[2])

\* sorted(volunteer_data["months"].keys())
RECURSIVE sorted(_)
sorted(keys) ==
    IF keys = {} THEN <<>>
    ELSE LET least == CHOOSE a \in keys : \A b \in keys \ {a} : PeriodBefore(a, b)
         IN  <<least>> \o sorted(keys \ {least})

\* What a call that raised leaves instead of a result.
Raised(error) == [raised |-> error]

\* The key is taken by datetime.strptime(month_str, "%Y-%m"): it names a
\* month of a four-digit year.
strptime(month_str) ==
    month_str[1] \in 1..9999 /\ month_str[2] \in 1..12

\* The test without its branch for December and January.
ConsecutiveWithinYear(month_date, previous_month) ==
    month_date[1] = previous_month[1] /\ month_date[2] = previous_month[2] + 1

\* The month is the one after the previous month.
Consecutive(month_date, previous_month) ==
    \/ month_date[1] = previous_month[1] /\ month_date[2] = previous_month[2] + 1
    \/ /\ month_date[1] = previous_month[1] + 1
       /\ month_date[2] = 1
       /\ previous_month[2] = 12

\* The badge test as "more than ten hours".
CountsAboveBadgeHours(hours_in_month, badge) ==
    IF badge THEN hours_in_month > BadgeHours ELSE hours_in_month > 0

\* The month counts: hours > 0 in get_hour_streaks, hours >= 10 in
\* get_volunteer_badge_streaks.
Counts(hours_in_month, badge) ==
    IF badge THEN hours_in_month >= BadgeHours ELSE hours_in_month > 0

\* The loop over the sorted months of get_hour_streaks (badge = FALSE, a month
\* counts with hours > 0) and of get_volunteer_badge_streaks (badge = TRUE, a
\* month counts with hours >= 10); previous_month None is NoPeriod.
RECURSIVE StreakLoop(_, _, _, _)
StreakLoop(months, keys, badge, s) ==
    IF keys = <<>> THEN s
    ELSE LET month_str == Head(keys)
             counts == Counts(months[month_str], badge)
             current_streak ==
                 IF ~counts THEN 0
                 ELSE IF s.previous_month # NoPeriod
                         /\ Consecutive(month_str, s.previous_month)
                      THEN s.current_streak + 1
                      ELSE 1
         IN  IF counts /\ ~strptime(month_str)
             THEN Raised("ValueError")
             ELSE StreakLoop(months, Tail(keys), badge,
                      [longest_streak  |-> Max(s.longest_streak, current_streak),
                       current_streak  |-> current_streak,
                       previous_month  |-> IF counts THEN month_str ELSE NoPeriod])

\* The loop over the records; the ValueError of one record's key leaves the
\* function before any result is returned.
Streaks(vh, badge) ==
    LET loop(tidyhq_id) ==
            StreakLoop(vh[tidyhq_id].months, sorted(DOMAIN vh[tidyhq_id].months),
                       badge,
                       [longest_streak |-> 0, current_streak |-> 0,
                        previous_month |-> NoPeriod])
    IN  IF \E tidyhq_id \in DOMAIN vh : "raised" \in DOMAIN loop(tidyhq_id)
        THEN Raised("ValueError")
        ELSE [tidyhq_id \in DOMAIN vh |->
                 [name |-> vh[tidyhq_id].name,
                  longest_streak |-> loop(tidyhq_id).longest_streak,
                  current_streak |-> loop(tidyhq_id).current_streak]]

get_hour_streaks(vh) == Streaks(vh, FALSE)

get_volunteer_badge_streaks(vh) == Streaks(vh, TRUE)

get_volunteer_streak(tidyhq_id, vh) ==
    LET streaks == get_hour_streaks(vh)
    IN  IF "raised" \in DOMAIN streaks THEN streaks
        ELSE IF tidyhq_id \in DOMAIN streaks THEN streaks[tidyhq_id]
        ELSE [longest_streak |-> 0, current_streak |-> 0]

get_badge_streak(tidyhq_id, vh) ==
    LET badge_streaks == get_volunteer_badge_streaks(vh)
    IN  IF "raised" \in DOMAIN badge_streaks THEN badge_streaks
        ELSE IF tidyhq_id \in DOMAIN badge_streaks THEN badge_streaks[tidyhq_id]
        ELSE [longest_streak |-> 0, current_streak |-> 0]

\* Ledgers hours.json may hold at start-up: one record whose months are any
\* of five periods, each with no hours, nine hours or ten.
StreakPeriods == {<<2024, 12>>, <<2025, 11>>, <<2025, 12>>, <<2026, 1>>, <<2026, 2>>}

HourLevels == {0, BadgeHours - 1, BadgeHours}

StatisticsLedgers ==
    {"1" :> [name |-> "N1", months |-> m] :
        m \in UNION {[S -> HourLevels] : S \in SUBSET StreakPeriods}}

InitStatistics ==
    /\ volunteer_hours \in StatisticsLedgers
    /\ hours_json = <<volunteer_hours>>
    /\ tidyhq_cache = Directory0
    /\ tidyhq_live = Directory0
    /\ call = [t \in Threads |-> IdleCall]
    /\ unlocked = EmptyBag
    /\ contributed = [id \in Directory0.contacts |-> 0]
    /\ view = NoView

\* slack_app.py modal_user_statistics: the statistics of the contact named by
\* the button, opened as a modal.
modal_user_statistics ==
    \E tidyhq_id \in Directory0.contacts :
        /\ LET streak == get_volunteer_streak(tidyhq_id, volunteer_hours)
               badge_streak == get_badge_streak(tidyhq_id, volunteer_hours)
           IN  view' = IF "raised" \in DOMAIN streak
                       THEN [kind |-> "raised", tidyhq_id |-> tidyhq_id,
                             error |-> streak.raised]
                       ELSE IF "raised" \in DOMAIN badge_streak
                       THEN [kind |-> "raised", tidyhq_id |-> tidyhq_id,
                             error |-> badge_streak.raised]
                       ELSE [kind |-> "user_statistics",
                             tidyhq_id |-> tidyhq_id,
                             total_hours |-> get_total(tidyhq_id, volunteer_hours),
                             debt |-> get_debt(tidyhq_id, volunteer_hours),
                             streak |-> streak,
                             badge_streak |-> badge_streak]
        /\ UNCHANGED <<volunteer_hours, hours_json, tidyhq_cache, tidyhq_live,
                       call, unlocked, contributed>>

SpecStatistics == InitStatistics /\ [][modal_user_statistics]_vars

\* ------------------------------------------------------ overall statistics

Reverse(seq) == [k \in 1..Len(seq) |-> seq[Len(seq) + 1 - k]]

\* hours_by_month in the order the loops first meet the periods, taken here
\* as ascending.
hours_by_month_unsorted(vh) ==
    LET periods == UNION {DOMAIN vh[tidyhq_id].months : tidyhq_id \in DOMAIN vh}
        in_month(p) == [tidyhq_id \in DOMAIN vh |->
                           IF p \in DOMAIN vh[tidyhq_id].months
                           THEN vh[tidyhq_id].months[p] ELSE 0]
        order == sorted(periods)
    IN  [k \in 1..Len(order) |-> <<order[k], SumOver(in_month(order[k]), DOMAIN vh)>>]

\* The per-month sums of all records, sorted(hours_by_month.items(),
\* reverse=True): latest period first.
hours_by_month(vh) ==
    LET periods == UNION {DOMAIN vh[tidyhq_id].months : tidyhq_id \in DOMAIN vh}
        in_month(p) == [tidyhq_id \in DOMAIN vh |->
                           IF p \in DOMAIN vh[tidyhq_id].months
                           THEN vh[tidyhq_id].months[p] ELSE 0]
        order == Reverse(sorted(periods))
    IN  [k \in 1..Len(order) |-> <<order[k], SumOver(in_month(order[k]), DOMAIN vh)>>]

\* get_overall_statistics; the two averages are kept as the fractions that
\* are divided, and a zero divisor raises.
get_overall_statistics(vh, cache) ==
    LET totals == [tidyhq_id \in DOMAIN vh |-> get_total(tidyhq_id, vh)]
        admins == {tidyhq_id \in DOMAIN vh : check_for_groups(tidyhq_id, cache)}
        total_hours == SumOver(totals, DOMAIN vh)
        total_admin_hours == SumOver(totals, admins)
        admin_count == Cardinality(admins)
        total_volunteers == Cardinality(DOMAIN vh)
    IN  IF total_volunteers = 0 \/ total_volunteers - admin_count = 0
        THEN Raised("ZeroDivisionError")
        ELSE [total_hours |-> total_hours,
              total_volunteers |-> total_volunteers,
              average_hours_per_volunteer |-> <<total_hours, total_volunteers>>,
              average_hours_per_volunteer_no_admin |->
                  <<total_hours - total_admin_hours, total_volunteers - admin_count>>,
              hours_by_month |-> hours_by_month(vh)]

\* The volunteers with hours, in the order the ledger is iterated.
RECURSIVE volunteers_with_totals(_, _)
volunteers_with_totals(vh, keys) ==
    IF keys = <<>> THEN <<>>
    ELSE (IF get_total(Head(keys), vh) > 0
          THEN <<[tidyhq_id |-> Head(keys), name |-> vh[Head(keys)].name,
                  total_hours |-> get_total(Head(keys), vh)]>>
          ELSE <<>>)
         \o volunteers_with_totals(vh, Tail(keys))

\* The entry put before the entries of the same total.
InsertedBeforeEqual(entry, ranked) ==
    LET ahead == SelectSeq(ranked, LAMBDA e : e.total_hours > entry.total_hours)
        rest == SelectSeq(ranked, LAMBDA e : e.total_hours <= entry.total_hours)
    IN  ahead \o <<entry>> \o rest

\* list.sort(key=total_hours, reverse=True) is stable: an entry goes behind
\* the entries of at least its total that came before it.
Inserted(entry, ranked) ==
    LET ahead == SelectSeq(ranked, LAMBDA e : e.total_hours >= entry.total_hours)
        rest == SelectSeq(ranked, LAMBDA e : e.total_hours < entry.total_hours)
    IN  ahead \o <<entry>> \o rest

RECURSIVE SortedByTotal(_, _)
SortedByTotal(entries, ranked) ==
    IF entries = <<>> THEN ranked
    ELSE SortedByTotal(Tail(entries), Inserted(Head(entries), ranked))

get_all_volunteers(vh, keys) ==
    SortedByTotal(volunteers_with_totals(vh, keys), <<>>)

\* limit: int = 5
TopLimit == 5

get_top_volunteers(vh, keys) ==
    LET ranked == get_all_volunteers(vh, keys)
    IN  SubSeq(ranked, 1, IF Len(ranked) < TopLimit THEN Len(ranked) ELSE TopLimit)

\* The volunteers whose stored debt is above their hours, in ledger order.
RECURSIVE volunteers_with_debt(_, _)
volunteers_with_debt(vh, keys) ==
    IF keys = <<>> THEN <<>>
    ELSE (IF DebtOf(vh[Head(keys)]) > get_total(Head(keys), vh)
          THEN <<[tidyhq_id |-> Head(keys), name |-> vh[Head(keys)].name,
                  total_hours |-> DebtOf(vh[Head(keys)])]>>
          ELSE <<>>)
         \o volunteers_with_debt(vh, Tail(keys))

\* get_all_debt: sorted by the stored debt, descending.
get_all_debt(vh, keys) ==
    LET ranked == SortedByTotal(volunteers_with_debt(vh, keys), <<>>)
    IN  [k \in 1..Len(ranked) |->
            [tidyhq_id |-> ranked[k].tidyhq_id, name |-> ranked[k].name,
             total_debt |-> ranked[k].total_hours]]

\* committee: the sum of the totals of the admins with hours.
committee(vh, cache) ==
    SumOver([tidyhq_id \in DOMAIN vh |-> get_total(tidyhq_id, vh)],
            {tidyhq_id \in DOMAIN vh :
                get_total(tidyhq_id, vh) > 0 /\ check_for_groups(tidyhq_id, cache)})

get_non_admin_volunteers(vh, keys, cache) ==
    SortedByTotal(SelectSeq(volunteers_with_totals(vh, keys),
                            LAMBDA e : ~check_for_groups(e.tidyhq_id, cache)),
                  <<>>)
    \o <<[tidyhq_id |-> "committee", name |-> "Committee Members",
          total_hours |-> committee(vh, cache)]>>

\* A ledger key added while the statistics are computed.
ledger_after_statistics_with_key(vh) ==
    vh @@ ("committee" :> [name |-> "Committee Members", months |-> <<>>])

\* The statistics functions assign to locals only: the ledger after them.
ledger_after_statistics(vh) == vh

\* Contact ids of the records of hours.json; "8" has left the directory.
LedgerIds == {"1", "7", "8"}

\* The orders a dict with these keys may iterate in.
Orders(S) == {keys \in [1..Cardinality(S) -> S] : Injective(keys)}

\* Ledgers hours.json may hold at start-up: any of the three records, each
\* with any of two months holding no hour or one; any of them admins.
InitOverall ==
    /\ \E ids \in SUBSET LedgerIds :
          \E table \in [ids -> UNION {[S -> 0..1] : S \in SUBSET {<<2025, 12>>, <<2026, 1>>}}] :
              volunteer_hours = [tidyhq_id \in ids |->
                                    [name |-> format_contact(tidyhq_id),
                                     months |-> table[tidyhq_id]]]
    /\ hours_json = <<volunteer_hours>>
    /\ \E admin \in SUBSET LedgerIds :
          tidyhq_cache = [Directory0 EXCEPT !.admin = admin]
    /\ tidyhq_live = tidyhq_cache
    /\ call = [t \in Threads |-> IdleCall]
    /\ unlocked = EmptyBag
    /\ contributed = [id \in Directory0.contacts |-> 0]
    /\ view = NoView

\* block_formatters.modal_statistics as opened by modal_admin_statistics:
\* the overall statistics first, then the leaderboards.
modal_statistics ==
    \E keys \in Orders(DOMAIN volunteer_hours) :
        LET stats == get_overall_statistics(volunteer_hours, tidyhq_cache)
            badge_streak == get_volunteer_badge_streaks(volunteer_hours)
        IN  /\ view' = IF "raised" \in DOMAIN stats
                       THEN [kind |-> "raised", keys |-> keys, stats |-> stats,
                             error |-> stats.raised]
                       ELSE IF "raised" \in DOMAIN badge_streak
                       THEN [kind |-> "raised", keys |-> keys, stats |-> stats,
                             error |-> badge_streak.raised]
                       ELSE [kind |-> "statistics", keys |-> keys, stats |-> stats,
                             top_volunteers |->
                                 get_top_volunteers(volunteer_hours, keys),
                             all_volunteers |->
                                 get_all_volunteers(volunteer_hours, keys),
                             volunteers_with_debt |->
                                 get_all_debt(volunteer_hours, keys),
                             non_admin_volunteers |->
                                 get_non_admin_volunteers(volunteer_hours, keys,
                                                          tidyhq_cache),
                             badge_streak |-> badge_streak]
            /\ volunteer_hours' = ledger_after_statistics(volunteer_hours)
            /\ UNCHANGED <<hours_json, tidyhq_cache, tidyhq_live, call, unlocked,
                           contributed>>

\* util.hours.get_all_volunteers and get_non_admin_volunteers called on the
\* ledger.
leaderboards_called ==
    \E keys \in Orders(DOMAIN volunteer_hours) :
        /\ view' = [kind |-> "leaderboards", keys |-> keys,
                    all_volunteers |-> get_all_volunteers(volunteer_hours, keys),
                    non_admin_volunteers |->
                        get_non_admin_volunteers(volunteer_hours, keys, tidyhq_cache)]
        /\ UNCHANGED <<volunteer_hours, hours_json, tidyhq_cache, tidyhq_live,
                       call, unlocked, contributed>>

NextOverall ==
    \/ modal_statistics
    \/ leaderboards_called

SpecOverall == InitOverall /\ [][NextOverall]_vars

\* hours.json at start-up with records that hold hours of one month, and
\* with or without a debt.
InitDebt ==
    /\ \E ids \in SUBSET LedgerIds :
          \E hours_of \in [ids -> 0..(MaxHours - 1)],
             debt_of \in [ids -> {<<>>} \cup {<<debt>> : debt \in 0..MaxHours}] :
              volunteer_hours = [tidyhq_id \in ids |->
                  LET record == [name |-> format_contact(tidyhq_id),
                                 months |-> (<<2025, 12>> :> hours_of[tidyhq_id])]
                  IN  IF debt_of[tidyhq_id] = <<>> THEN record
                      ELSE [name |-> record.name, months |-> record.months,
                            debt |-> debt_of[tidyhq_id][1]]]
    /\ hours_json = <<volunteer_hours>>
    /\ tidyhq_cache = Directory0
    /\ tidyhq_live = Directory0
    /\ call = [t \in Threads |-> IdleCall]
    /\ unlocked = EmptyBag
    /\ contributed = [id \in Directory0.contacts |-> 0]
    /\ view = NoView

\* util.hours.get_all_debt called on the ledger, as modal_statistics does for
\* its list of the time debt owed.
get_all_debt_called ==
    \E keys \in Orders(DOMAIN volunteer_hours) :
        /\ view' = [kind |-> "get_all_debt", keys |-> keys,
                    volunteers_with_debt |-> get_all_debt(volunteer_hours, keys)]
        /\ UNCHANGED <<volunteer_hours, hours_json, tidyhq_cache, tidyhq_live,
                       call, unlocked, contributed>>

SpecDebt == InitDebt /\ [][get_all_debt_called]_vars

\* Month keys of an hours.json edited by hand: "2025-13" names no month.
MalformedPeriods == {<<2025, 12>>, <<2025, 13>>, <<2026, 1>>}

\* hours.json at start-up with a record whose months are any of these keys,
\* and with or without the record of another contact.
InitMalformed ==
    /\ \E months \in UNION {[S -> HourLevels] : S \in SUBSET MalformedPeriods} :
          \E others \in {<<>>, InitialHours,
                          "7" :> [name |-> "N7", months |-> (<<2025, 12>> :> BadgeHours)]} :
              volunteer_hours = ("1" :> [name |-> "N1", months |-> months]) @@ others
    /\ hours_json = <<volunteer_hours>>
    /\ tidyhq_cache = Directory0
    /\ tidyhq_live = Directory0
    /\ call = [t \in Threads |-> IdleCall]
    /\ unlocked = EmptyBag
    /\ contributed = [id \in Directory0.contacts |-> 0]
    /\ view = NoView

NextMalformed ==
    \/ modal_user_statistics
    \/ modal_statistics

SpecMalformed == InitMalformed /\ [][NextMalformed]_vars

\* --------------------------------------------------------- block generators

\* What a generator of slack/block_formatters.py gives: the block list it
\* returns, as the types of its blocks, and the calls of slack.misc.validate
\* it has made, each with the block list and the surface handed over.
Generated(block_list, validate) == [block_list |-> block_list, validate |-> validate]

\* The tiers of rewards.json whose definition has a "claim" text.
RewardClaim == [monthly |-> {1}, cumulative |-> {3}]

\* The year and month before those of a date.
CalendarStep(date) ==
    IF date.month = 1 THEN <<date.year - 1, 12>> ELSE <<date.year, date.month - 1>>

DaysIn(year, month) ==
    IF month = 2
    THEN (IF year % 4 = 0 /\ (year % 100 # 0 \/ year % 400 = 0) THEN 29 ELSE 28)
    ELSE IF month \in {4, 6, 9, 11} THEN 30 ELSE 31

\* date - timedelta(days=days)
RECURSIVE timedelta_before(_, _)
timedelta_before(date, days) ==
    LET before == CalendarStep(date)
    IN  IF days < date.day
        THEN [date EXCEPT !.day = @ - days]
        ELSE timedelta_before([year |-> before[1], month |-> before[2],
                               day |-> DaysIn(before[1], before[2])],
                              days - date.day)

\* The first day of the calendar month before the date's.
FirstOfMonthBefore(date) ==
    [year |-> CalendarStep(date)[1], month |-> CalendarStep(date)[2], day |-> 1]

\* datetime.now() - timedelta(days=30)
ThirtyDaysBefore(date) == timedelta_before(date, 30)

get_last_month(tidyhq_id, vh, now) ==
    get_specific_month(tidyhq_id, vh, ThirtyDaysBefore(now))

get_current_month(tidyhq_id, vh, now) ==
    get_specific_month(tidyhq_id, vh, now)

\* reward_tier: nothing for an active tier not reached; otherwise the text of
\* the tier and, when it is achieved and has one, its claim text.
reward_tier(claim, required_hours, current_hours, active) ==
    IF active /\ current_hours < required_hours
    THEN Generated(<<>>, <<>>)
    ELSE Generated(<<"section">>
                       \o (IF current_hours >= required_hours /\ claim
                           THEN <<"context">> ELSE <<>>),
                   <<>>)

\* The reward_tier calls of one loop over a table of rewards, joined.
RECURSIVE reward_tiers(_, _, _, _)
reward_tiers(scope, tiers, current_hours, active) ==
    IF tiers = <<>> THEN Generated(<<>>, <<>>)
    ELSE LET first == reward_tier(Head(tiers) \in RewardClaim[scope], Head(tiers),
                                  current_hours, active)
             rest == reward_tiers(scope, Tail(tiers), current_hours, active)
         IN  Generated(first.block_list \o rest.block_list,
                       first.validate \o rest.validate)

reward_notification(claim, hours) ==
    LET tier == reward_tier(claim, hours, hours, TRUE)
    IN  Generated(<<"section">> \o tier.block_list, tier.validate)

app_home(user_id, cache, vh, modal_version, now) ==
    LET tidyhq_id == map_slack_to_tidyhq(cache, user_id)
        total_hours == get_total(tidyhq_id, vh)
        last_month_hours == get_last_month(tidyhq_id, vh, now)
        this_month_hours == get_current_month(tidyhq_id, vh, now)
        admin == check_for_groups(tidyhq_id, cache)
        top == IF modal_version THEN <<>>
               ELSE <<"header", "section">>
                    \o (IF admin THEN <<"header", "section", "actions">> ELSE <<>>)
                    \o <<"divider">>
        upcoming == reward_tiers("monthly", rewards.monthly, this_month_hours, FALSE)
        active == reward_tiers("monthly", rewards.monthly, last_month_hours, TRUE)
        lifetime == reward_tiers("cumulative", rewards.cumulative, total_hours, FALSE)
    IN  IF tidyhq_id = None
        THEN Generated(<<"header", "section">>, <<>>)
        ELSE Generated(top \o <<"header">> \o upcoming.block_list
                           \o <<"header">>
                           \o (IF active.block_list = <<>> THEN <<"section">>
                               ELSE active.block_list)
                           \o <<"divider", "header">> \o lifetime.block_list,
                       upcoming.validate \o active.validate \o lifetime.validate)

modal_add_hours(mode, user_id, debt) ==
    Generated(<<"section", "input", "input", "input", "input">>, <<>>)

\* The generators called as their callers and test_block_validation.py call
\* them; the result is what the caller holds afterwards.
app_home_called ==
    \E user_id \in Handles, modal_version \in BOOLEAN, now \in Dates :
        /\ view' = [kind |-> "blocks", generator |-> "app_home",
                    args |-> <<user_id, modal_version, now>>,
                    result |-> app_home(user_id, tidyhq_cache, volunteer_hours,
                                        modal_version, now)]
        /\ UNCHANGED <<volunteer_hours, hours_json, tidyhq_cache, tidyhq_live,
                       call, unlocked, contributed>>

reward_tier_called ==
    \E claim, active \in BOOLEAN, required_hours \in 1..MaxHours,
       current_hours \in 0..MaxHours :
        /\ view' = [kind |-> "blocks", generator |-> "reward_tier",
                    args |-> <<claim, required_hours, current_hours, active>>,
                    result |-> reward_tier(claim, required_hours, current_hours,
                                           active)]
        /\ UNCHANGED <<volunteer_hours, hours_json, tidyhq_cache, tidyhq_live,
                       call, unlocked, contributed>>

reward_notification_called ==
    \E claim \in BOOLEAN, hours \in 1..MaxHours :
        /\ view' = [kind |-> "blocks", generator |-> "reward_notification",
                    args |-> <<claim, hours>>,
                    result |-> reward_notification(claim, hours)]
        /\ UNCHANGED <<volunteer_hours, hours_json, tidyhq_cache, tidyhq_live,
                       call, unlocked, contributed>>

modal_add_hours_called ==
    \E mode \in {"admin", "self"}, user_id \in Handles, debt \in BOOLEAN :
        /\ view' = [kind |-> "blocks", generator |-> "modal_add_hours",
                    args |-> <<mode, user_id, debt>>,
                    result |-> modal_add_hours(mode, user_id, debt)]
        /\ UNCHANGED <<volunteer_hours, hours_json, tidyhq_cache, tidyhq_live,
                       call, unlocked, contributed>>

NextBlocks ==
    \/ app_home_called
    \/ reward_tier_called
    \/ reward_notification_called
    \/ modal_add_hours_called

SpecBlocks == InitStatistics /\ [][NextBlocks]_vars

\* ------------------------------------------------------------- validation

\* JSON values of a block: a string, a dict, a list of dicts.
Str(value) == [type |-> "str", value |-> value]

Dict(items) == [type |-> "dict", items |-> items]

List(elements) == [type |-> "list", elements |-> elements]

\* The keys of the dicts drawn.
BlockKeys == {"text", "elements"}

DictsOver(values) == {Dict(items) : items \in UNION {[S -> values] : S \in SUBSET BlockKeys}}

\* Blocks as the generators build them, two levels deep: a text or a list of
\* elements in a block, a text in a text object or in an element.
Blocks ==
    LET strings == {Str(""), Str("x")}
        inner == DictsOver(strings)
        lists == {List(<<>>)} \cup {List(<<element>>) : element \in inner}
    IN  DictsOver(strings \cup inner \cup lists)

\* check_for_empty_text: False for a key "text" with the value "", and for a
\* value that is a dict in which the check is False.
RECURSIVE check_for_empty_text(_)
check_for_empty_text(block) ==
    \A key \in DOMAIN block.items :
        LET value == block.items[key]
        IN  /\ ~(key = "text" /\ value.type = "str" /\ value.value = "")
            /\ value.type = "dict" => check_for_empty_text(value)

\* The longest block list of a modal or home view, and of a message.
ViewLimit == 100

MessageLimit == 50

\* What a call that returned leaves.
Returned(value) == [returned |-> value]

\* slack.misc.validate; schema_valid is what jsonschema.validate finds against
\* block-kit-schema.json.
validate(blocks, surface, schema_valid) ==
    IF surface \notin {"modal", "home", "message", "msg"}
    THEN Raised("ValueError")
    ELSE IF surface \in {"modal", "home"} /\ Len(blocks) > ViewLimit
    THEN Returned(FALSE)
    ELSE IF surface \in {"message", "msg"} /\ Len(blocks) > MessageLimit
    THEN Returned(FALSE)
    ELSE IF \E k \in DOMAIN blocks : ~check_for_empty_text(blocks[k])
    THEN Returned(FALSE)
    ELSE Returned(schema_valid)

\* validate called on a list of one block.
validate_called ==
    \E block \in Blocks, surface \in {"modal", "message", "sidebar"},
       schema_valid \in BOOLEAN :
        /\ view' = [kind |-> "validate", blocks |-> <<block>>, surface |-> surface,
                    schema_valid |-> schema_valid,
                    result |-> validate(<<block>>, surface, schema_valid)]
        /\ UNCHANGED <<volunteer_hours, hours_json, tidyhq_cache, tidyhq_live,
                       call, unlocked, contributed>>

SpecValidate == Init /\ [][validate_called]_vars

\* ------------------------------------------------------------ month reads

\* The days datetime.now() may give: every day of a leap year and of the
\* first three months of the year after it.
Clock ==
    UNION {{[year |-> period[1], month |-> period[2], day |-> day] :
               day \in 1..DaysIn(period[1], period[2])} :
           period \in ({2024} \X (1..12)) \cup ({2025} \X (1..3))}

\* A ledger whose record of contact 1 holds, for the months kept, hours that
\* tell the months apart.
MonthsLedger(kept) ==
    "1" :> [name |-> "N1",
            months |-> [period \in kept |-> 12 * (period[1] - 2023) + period[2]]]

\* hours.json at start-up: no record, or the record of contact 1 with every
\* month of three years, or with every second of them.
InitMonths ==
    /\ volunteer_hours \in
           {<<>>,
            MonthsLedger((2023..2025) \X (1..12)),
            MonthsLedger((2023..2025) \X {2, 4, 6, 8, 10, 12})}
    /\ hours_json = <<volunteer_hours>>
    /\ tidyhq_cache = Directory0
    /\ tidyhq_live = Directory0
    /\ call = [t \in Threads |-> IdleCall]
    /\ unlocked = EmptyBag
    /\ contributed = [id \in Directory0.contacts |-> 0]
    /\ view = NoView

\* util.hours.get_last_month called at some time for some contact id.
get_last_month_called ==
    \E now \in Clock, tidyhq_id \in {"1", Unlisted} :
        /\ view' = [kind |-> "get_last_month", now |-> now, tidyhq_id |-> tidyhq_id,
                    hours |-> get_last_month(tidyhq_id, volunteer_hours, now)]
        /\ UNCHANGED <<volunteer_hours, hours_json, tidyhq_cache, tidyhq_live,
                       call, unlocked, contributed>>

\* util.hours.get_current_month called at some time for some contact id.
get_current_month_called ==
    \E now \in Clock, tidyhq_id \in {"1", Unlisted} :
        /\ view' = [kind |-> "get_current_month", now |-> now,
                    tidyhq_id |-> tidyhq_id,
                    hours |-> get_current_month(tidyhq_id, volunteer_hours, now)]
        /\ UNCHANGED <<volunteer_hours, hours_json, tidyhq_cache, tidyhq_live,
                       call, unlocked, contributed>>

NextMonths ==
    \/ get_last_month_called
    \/ get_current_month_called

SpecMonths == InitMonths /\ [][NextMonths]_vars

\* ------------------------------------------------------- volunteer badges

\* The longest volunteer field followed.
MaxField == 4

\* datetime.strptime(date_str, "%y%m"): a two-digit year from 69 on is of
\* the 1900s, one below of the 2000s; the day is the first of the month.
strptime_yymm(date_str) ==
    [year |-> IF date_str[1] >= 69 THEN 1900 + date_str[1] ELSE 2000 + date_str[1],
     month |-> date_str[2], day |-> 1]

\* date.strftime("%y%m"): the year without its century, and the month.
strftime_yymm(date) == <<date.year % 100, date.month>>

\* The order of datetimes.
Earlier(a, b) ==
    \/ a.year < b.year
    \/ a.year = b.year /\ a.month < b.month
    \/ a.year = b.year /\ a.month = b.month /\ a.day < b.day

\* list.sort(): ascending, equal dates in the order they had.
RECURSIVE sort(_)
sort(dates) ==
    IF dates = <<>> THEN <<>>
    ELSE LET ascending == sort(SubSeq(dates, 1, Len(dates) - 1))
             last == dates[Len(dates)]
             before == SelectSeq(ascending, LAMBDA d : ~Earlier(last, d))
             after == SelectSeq(ascending, LAMBDA d : Earlier(last, d))
         IN  before \o <<last>> \o after

\* Lines 57-62: some date of the field is of the year and month of the
\* timestamp.
already_badged(existing_dates, timestamp) ==
    \E k \in DOMAIN existing_dates :
        /\ existing_dates[k].year = timestamp.year
        /\ existing_dates[k].month = timestamp.month

\* util.rewards.volunteer_badge on the field read live from TidyHQ; the
\* field is the list of its comma separated dates, and updated is what
\* set_custom_field returns.
volunteer_badge(field_str, timestamp, updated) ==
    LET existing_dates == [k \in DOMAIN field_str |-> strptime_yymm(field_str[k])]
        ascending == sort(Append(existing_dates, timestamp))
    IN  IF already_badged(existing_dates, timestamp)
        THEN [written |-> <<>>, existing_dates |-> existing_dates,
              returned |-> TRUE]
        ELSE [written |-> <<[k \in DOMAIN ascending |-> strftime_yymm(ascending[k])]>>,
              existing_dates |-> ascending, returned |-> updated]

\* The months badges are claimed for: the dates of the date picker, a month
\* before them and one outside the years a two-digit year stands for.
BadgeTimestamps ==
    Dates \cup {[year |-> 2025, month |-> 11, day |-> 30],
                [year |-> 2069, month |-> 1, day |-> 15]}

\* The volunteer field of a contact in TidyHQ: empty, with one month, or
\* with two months edited by hand.
InitBadge ==
    /\ volunteer_hours = InitialHours
    /\ hours_json = <<InitialHours>>
    /\ tidyhq_cache = Directory0
    /\ tidyhq_live = Directory0
    /\ call = [t \in Threads |-> IdleCall]
    /\ unlocked = EmptyBag
    /\ contributed = [id \in Directory0.contacts |-> 0]
    /\ \E field_str \in {<<>>, <<<<25, 12>>>>, <<<<26, 1>>, <<25, 11>>>>} :
          view = [kind |-> "volunteer_field", value |-> field_str]

\* volunteer_badge called for a month; a write that TidyHQ accepts replaces
\* the field.
volunteer_badge_called ==
    \E timestamp \in BadgeTimestamps, updated \in BOOLEAN :
        LET badge == volunteer_badge(view.value, timestamp, updated)
        IN  /\ Len(view.value) < MaxField
            /\ view' = [kind |-> "volunteer_badge",
                        value |-> IF badge.written # <<>> /\ updated
                                  THEN badge.written[1] ELSE view.value,
                        field_str |-> view.value,
                        timestamp |-> timestamp,
                        written |-> badge.written,
                        existing_dates |-> badge.existing_dates,
                        returned |-> badge.returned]
            /\ UNCHANGED <<volunteer_hours, hours_json, tidyhq_cache, tidyhq_live,
                           call, unlocked, contributed>>

SpecBadge == InitBadge /\ [][volunteer_badge_called]_vars

\* ================================================================== claims

Range(s) == {s[k] : k \in DOMAIN s}

Tiers(scope) == Range(RewardsJson[scope])

Periods == {strftime(date) : date \in Dates}

MonthOf(vh, tidyhq_id, period) ==
    IF tidyhq_id \in DOMAIN vh /\ period \in DOMAIN vh[tidyhq_id].months
    THEN vh[tidyhq_id].months[period] ELSE 0

TotalOf(vh, tidyhq_id) ==
    MonthOf(vh, tidyhq_id, <<2025, 12>>) + MonthOf(vh, tidyhq_id, <<2026, 1>>)

\* The strictly increasing sequence of the numbers of S.
InOrder(S) ==
    CHOOSE s \in [1..Cardinality(S) -> S] :
        \A a, b \in 1..Cardinality(S) : a < b => s[a] < s[b]

\* The thresholds of the unlock DMs a call has sent to a volunteer, in order sent.
UnlocksSent(c, volunteer, scope) ==
    LET sent == SelectSeq(c.dm, LAMBDA m :
                    m.to = volunteer /\ m.kind = "unlock" /\ m.scope = scope)
    IN  [k \in 1..Len(sent) |-> sent[k].hours]

\* No item is between its reward checks and its add_hours.
Settled == \A t \in Threads : call[t].pc \notin {"cumulative", "apply"}

\* C1: with the submissions handled one after another, the number of unlock
\* DMs sent for a cumulative threshold is 1 once the contact's all-time total
\* has been taken from below it to it or above, and 0 before; the same per
\* month for a monthly threshold.
C1_EachThresholdOnce ==
    Settled =>
        \A tidyhq_id \in Directory0.contacts :
            /\ \A reward \in Tiers("cumulative") :
                  CopiesIn(UnlockKey(tidyhq_id, "cumulative", NoPeriod, reward), unlocked)
                  = IF /\ TotalOf(InitialHours, tidyhq_id) < reward
                       /\ reward <= TotalOf(volunteer_hours, tidyhq_id)
                    THEN 1 ELSE 0
            /\ \A period \in Periods, reward \in Tiers("monthly") :
                  CopiesIn(UnlockKey(tidyhq_id, "monthly", period, reward), unlocked)
                  = IF /\ MonthOf(InitialHours, tidyhq_id, period) < reward
                       /\ reward <= MonthOf(volunteer_hours, tidyhq_id, period)
                    THEN 1 ELSE 0

\* Two Slack ids of one batch resolved to the same contact, their hours
\* together crossed both cumulative thresholds, each was announced once.
C1_Witness ==
    /\ call[1].pc = "done"
    /\ Len(call[1].applied) = 2
    /\ call[1].applied[1].tidyhq_id = call[1].applied[2].tidyhq_id
    /\ call[1].applied[1].volunteer # call[1].applied[2].volunteer
    /\ \A reward \in Tiers("cumulative") :
          CopiesIn(UnlockKey("1", "cumulative", NoPeriod, reward), unlocked) = 1

\* C2: the thresholds announced for an item are those t of the table with
\* pre < t <= pre + d, in ascending order, pre being the month's hours for
\* the monthly table and the all-time total for the cumulative one.
C2_CrossedExactly ==
    \A t \in Threads :
        LET c == call[t]
            volunteer == c.changes[c.i][1]
            d == c.changes[c.i][2]
            pre_month == MonthOf(volunteer_hours, c.tidyhq_id, strftime(c.volunteer_date))
            pre_total == TotalOf(volunteer_hours, c.tidyhq_id)
        IN  /\ c.pc \in {"cumulative", "apply"} /\ ~c.debt =>
                UnlocksSent(c, volunteer, "monthly") =
                    InOrder({r \in Tiers("monthly") : pre_month < r /\ r <= pre_month + d})
            /\ c.pc = "apply" /\ ~c.debt =>
                UnlocksSent(c, volunteer, "cumulative") =
                    InOrder({r \in Tiers("cumulative") : pre_total < r /\ r <= pre_total + d})
            /\ c.pc \in {"cumulative", "apply"} /\ d = 0 =>
                UnlocksSent(c, volunteer, "monthly") = <<>>
                /\ UnlocksSent(c, volunteer, "cumulative") = <<>>

\* One delta skipped both thresholds of each table, the cumulative ones from
\* an all-time total of 1, the monthly ones from a month without hours.
C2_Witness ==
    /\ call[1].pc = "apply"
    /\ ~call[1].debt
    /\ UnlocksSent(call[1], call[1].changes[call[1].i][1], "cumulative") = <<2, 3>>
    /\ UnlocksSent(call[1], call[1].changes[call[1].i][1], "monthly") = <<1, 2>>
    /\ TotalOf(volunteer_hours, call[1].tidyhq_id) = 1
    /\ MonthOf(volunteer_hours, call[1].tidyhq_id, strftime(call[1].volunteer_date)) = 0

\* C3: a non-debt add_hours of d grows the contact's total and the bucket of
\* the period by exactly d, the bucket being there afterwards; and the total
\* is always the start-up total plus the sum of the non-debt hours applied.
C3_Additive ==
    /\ [](\A tidyhq_id \in Directory0.contacts :
            get_total(tidyhq_id, volunteer_hours)
            = TotalOf(InitialHours, tidyhq_id) + contributed[tidyhq_id])
    /\ [][\A t \in Threads :
            call[t].pc = "apply" /\ call'[t].pc = "ack" /\ ~call[t].debt =>
                LET tidyhq_id == call[t].tidyhq_id
                    d == call[t].changes[call[t].i][2]
                    period == strftime(call[t].volunteer_date)
                IN  /\ get_total(tidyhq_id, volunteer_hours')
                       = get_total(tidyhq_id, volunteer_hours) + d
                    /\ period \in DOMAIN volunteer_hours'[tidyhq_id].months
                    /\ volunteer_hours'[tidyhq_id].months[period]
                       = MonthOf(volunteer_hours, tidyhq_id, period) + d]_vars

\* Hours were added to a bucket that already held hours, and to a second
\* bucket of the same contact.
C3_Witness ==
    /\ call[1].pc = "ack"
    /\ ~call[1].debt
    /\ call[1].changes[call[1].i][2] = 1
    /\ MonthOf(volunteer_hours, "1", strftime(call[1].volunteer_date)) = 2
    /\ contributed["1"] = 3

\* C6: a call refreshes the directory cache at most once; an item whose first
\* lookup fails while the refresh is unused is looked up once more in the
\* refreshed cache, and every other item is looked up once.
C6_OneRefresh ==
    /\ [](\A t \in Threads :
            /\ call[t].refreshes <= 1
            /\ call[t].lookups <= 2
            /\ call[t].cache_refreshed <=> call[t].refreshes = 1)
    /\ [][\A t \in Threads :
            call[t].pc = "resolve" /\ call'[t] # call[t] =>
                LET c == call[t]
                    volunteer == c.changes[c.i][1]
                    retry == /\ map_slack_to_tidyhq(c.tidyhq_cache, volunteer) = None
                             /\ ~c.cache_refreshed
                IN  IF retry
                    THEN /\ call'[t].refreshes = c.refreshes + 1
                         /\ call'[t].lookups = 2
                         /\ call'[t].tidyhq_cache = tidyhq_live
                         /\ call'[t].tidyhq_id = tidyhq_live.slack[volunteer]
                    ELSE /\ call'[t].refreshes = c.refreshes
                         /\ call'[t].lookups = 1
                         /\ call'[t].tidyhq_cache = c.tidyhq_cache
                         /\ call'[t].tidyhq_id = c.tidyhq_cache.slack[volunteer]]_vars

\* Two Slack ids of one batch failed their first lookup: the call refreshed
\* once, for the first of them, and looked the second up once only.
C6_Witness ==
    /\ call[1].pc = "summary"
    /\ Len(call[1].failed) = 2
    /\ call[1].refreshes = 1
    /\ call[1].lookups = 1

\* C7: a Slack id that stays unresolved is recorded as failed by a step that
\* changes neither the ledger nor hours.json and sends nothing, and the call
\* never applies hours for it or sends it a DM.
C7_FailedUntouched ==
    /\ [](\A t \in Threads : \A k \in DOMAIN call[t].failed :
            /\ \A a \in DOMAIN call[t].applied :
                  call[t].applied[a].volunteer # call[t].failed[k]
            /\ \A m \in DOMAIN call[t].dm : call[t].dm[m].to # call[t].failed[k])
    /\ [][\A t \in Threads :
            call[t].pc = "resolve" /\ call'[t].failed # call[t].failed =>
                /\ call'[t].failed = Append(call[t].failed, call[t].changes[call[t].i][1])
                /\ call'[t].tidyhq_id = None
                /\ UNCHANGED <<volunteer_hours, hours_json, unlocked, contributed>>
                /\ call'[t].dm = call[t].dm
                /\ call'[t].applied = call[t].applied]_vars

\* A Slack id failed after the refresh and retry, in a batch that went on to
\* add hours for another volunteer.
C7_Witness ==
    /\ call[1].pc = "done"
    /\ call[1].refreshes = 1
    /\ call[1].failed = <<"UX">>
    /\ Len(call[1].applied) = 1
    /\ call[1].applied[1].hours > 0

\* C8: when the call has run through, the successful and the failed list
\* together hold every Slack id of the batch once, and the successful ones
\* are those add_hours was called for.
C8_Partition ==
    \A t \in Threads :
        call[t].pc \in {"summary", "done"} =>
            LET c == call[t]
                batch == {c.changes[k][1] : k \in DOMAIN c.changes}
            IN  /\ Range(c.successful) \cup Range(c.failed) = batch
                /\ Range(c.successful) \cap Range(c.failed) = {}
                /\ Len(c.successful) + Len(c.failed) = Len(c.changes)
                /\ Range(c.successful) = {c.applied[a].volunteer : a \in DOMAIN c.applied}
                /\ Len(c.applied) = Len(c.successful)

\* Three Slack ids, one of them unresolvable: two successes whose hours are
\* in the ledger, one failure.
C8_Witness ==
    /\ call[1].pc = "done"
    /\ Len(call[1].changes) = 3
    /\ Len(call[1].successful) = 2
    /\ call[1].failed = <<"UX">>
    /\ contributed["1"] = 2

\* C4: every value stored in a months mapping is >= 0, whatever hours
\* add_hours is called with.
C4_MonthsNeverNegative ==
    \A tidyhq_id \in DOMAIN volunteer_hours :
        \A period \in DOMAIN volunteer_hours[tidyhq_id].months :
            volunteer_hours[tidyhq_id].months[period] >= 0

\* C5: with two submissions handled at the same time, no threshold of a
\* contact is announced twice and the total holds every applied delta.
C5_ConcurrentBatchesIsolated ==
    /\ \A key \in BagToSet(unlocked) : CopiesIn(key, unlocked) <= 1
    /\ \A tidyhq_id \in Directory0.contacts :
          get_total(tidyhq_id, volunteer_hours)
          = TotalOf(InitialHours, tidyhq_id) + contributed[tidyhq_id]

\* C9: a failure of one item leaves no other item of the batch unprocessed:
\* when the listener is through with the batch, every other Slack id of it is
\* in the successful or in the failed list.
C9_SiblingsStillProcessed ==
    \A t \in Threads :
        call[t].pc \in {"done", "raised"} =>
            \A k \in DOMAIN call[t].changes :
                \/ call[t].pc = "raised" /\ k = call[t].i
                \/ call[t].changes[k][1] \in
                       Range(call[t].successful) \cup Range(call[t].failed)

\* C10: an add_hours whose write of hours.json fails leaves the contact's
\* total and debt, as read afterwards, what they were before the call, and the
\* item is not recorded as successful.
C10_FailedWriteNotApplied ==
    [][\A t \in Threads :
          call[t].pc = "apply" /\ call'[t].pc = "raised" =>
              /\ \A tidyhq_id \in Directory0.contacts :
                    /\ get_total(tidyhq_id, volunteer_hours')
                       = get_total(tidyhq_id, volunteer_hours)
                    /\ get_debt(tidyhq_id, volunteer_hours')
                       = get_debt(tidyhq_id, volunteer_hours)
              /\ call[t].changes[call[t].i][1] \notin Range(call'[t].successful)]_vars

\* The items of a call that add_hours has been called for.
AppliedFor(c) == {c.applied[a].volunteer : a \in DOMAIN c.applied}

\* The notices of a kind the call has posted to the admin channel.
NoticesOf(c, kind) == {n \in Range(c.admin) : n.kind = kind}

\* C11: an unlock DM, an unlock notice to the admin channel and a call of a
\* reward function are made for an item only once add_hours has applied the
\* item's hours.
C11_CrossingsAfterApplied ==
    \A t \in Threads :
        LET c == call[t]
        IN  /\ \A m \in Range(c.dm) : m.kind = "unlock" => m.to \in AppliedFor(c)
            /\ \A n \in NoticesOf(c, "unlock") : n.who \in AppliedFor(c)
            /\ c.rewarded # <<>> => c.applied # <<>>

\* C12: the step that checks a reward table for an item comes before the
\* item's add_hours, changes neither the ledger nor hours.json, and announces
\* the thresholds t with pre < t <= pre + d for the pre the ledger holds at
\* that step, which does not contain the item's d.
C12_DetectionBeforeMutation ==
    [][\A t \in Threads :
          call[t].pc \in {"monthly", "cumulative"} /\ call'[t] # call[t] =>
              LET c == call[t]
                  d == c.changes[c.i][2]
                  scope == c.pc
                  pre == IF scope = "monthly"
                         THEN MonthOf(volunteer_hours, c.tidyhq_id,
                                      strftime(c.volunteer_date))
                         ELSE TotalOf(volunteer_hours, c.tidyhq_id)
                  sent == SubSeq(call'[t].dm, Len(c.dm) + 1, Len(call'[t].dm))
              IN  /\ UNCHANGED <<volunteer_hours, hours_json, contributed>>
                  /\ Len(c.applied) + Len(c.failed) = c.i - 1
                  /\ call'[t].applied = c.applied
                  /\ TotalOf(volunteer_hours, c.tidyhq_id)
                     = TotalOf(InitialHours, c.tidyhq_id) + contributed[c.tidyhq_id]
                  /\ [k \in 1..Len(sent) |-> sent[k].hours]
                     = InOrder({r \in Tiers(scope) : pre < r /\ r <= pre + d})
                  /\ \A k \in 1..Len(sent) : sent[k].kind = "unlock"]_vars

\* The second item of a batch, for the contact of the first: the monthly check
\* took the hour of the first item as pre and announced threshold 2 only.
C12_Witness ==
    /\ call[1].pc = "cumulative"
    /\ call[1].i = 2
    /\ Len(call[1].applied) = 1
    /\ call[1].changes[2][2] = 1
    /\ MonthOf(volunteer_hours, call[1].tidyhq_id, strftime(call[1].volunteer_date)) = 1
    /\ UnlocksSent(call[1], call[1].changes[2][1], "monthly") = <<2>>

\* C13: a call with debt=True makes no reward check: it sends no unlock DM
\* and no unlock or reward-function notice, calls no reward function, and
\* its steps leave the unlocks sent since start-up as they were.
C13_DebtSkipsDetection ==
    /\ [](\A t \in Threads :
            call[t].debt =>
                /\ call[t].pc \notin {"monthly", "cumulative"}
                /\ \A m \in Range(call[t].dm) : m.kind # "unlock"
                /\ NoticesOf(call[t], "unlock") = {}
                /\ NoticesOf(call[t], "reward_failed") = {}
                /\ call[t].rewarded = <<>>)
    /\ [][\A t \in Threads : call[t].debt => unlocked' = unlocked]_vars

\* Two hours of debt were added for a contact without hours, which as hours
\* would have crossed thresholds of both tables.
C13_Witness ==
    /\ call[1].pc = "done"
    /\ call[1].debt
    /\ Len(call[1].applied) = 1
    /\ call[1].applied[1].hours = 2
    /\ StoredDebt(call[1].applied[1].tidyhq_id) = 2
    /\ TotalOf(volunteer_hours, call[1].applied[1].tidyhq_id) = 0

\* C14: a reward function that fails is reported to the admin channel and
\* the call goes on: the step sends every unlock of the table, the next table
\* is checked in full, add_hours is called for the item, the item is recorded
\* as successful and the other items of the batch are processed.
C14_RewardFailureContained ==
    /\ [][\A t \in Threads :
            /\ call[t].pc \in {"monthly", "cumulative"}
            /\ NoticesOf(call'[t], "reward_failed") # NoticesOf(call[t], "reward_failed")
            => /\ call'[t].pc = IF call[t].pc = "monthly" THEN "cumulative" ELSE "apply"
               /\ call'[t].rewarded # call[t].rewarded
               /\ Len(call'[t].dm) - Len(call[t].dm)
                  = Cardinality({n \in NoticesOf(call'[t], "unlock") :
                                    n.who = call[t].changes[call[t].i][1]
                                    /\ n.scope = call[t].pc})]_vars
    /\ [](\A t \in Threads :
            LET c == call[t]
                volunteer == c.changes[c.i][1]
                d == c.changes[c.i][2]
                pre_total == TotalOf(volunteer_hours, c.tidyhq_id)
            IN  /\ c.pc = "apply" /\ (\E n \in NoticesOf(c, "reward_failed") :
                                          n.who = volunteer) =>
                      UnlocksSent(c, volunteer, "cumulative") =
                          InOrder({r \in Tiers("cumulative") :
                                      pre_total < r /\ r <= pre_total + d})
                /\ c.pc \in {"summary", "done"} =>
                      /\ \A n \in NoticesOf(c, "reward_failed") :
                            n.who \in Range(c.successful) \cap AppliedFor(c)
                      /\ Len(c.successful) + Len(c.failed) = Len(c.changes))

\* The reward function of monthly threshold 2 failed for the first of two
\* items: the cumulative threshold was still announced, the hours were added,
\* the item is successful and the second item was processed.
C14_Witness ==
    /\ call[1].pc = "done"
    /\ Len(call[1].changes) = 2
    /\ \E n \in NoticesOf(call[1], "reward_failed") :
          n.who = call[1].changes[1][1] /\ n.hours = 2
    /\ UnlocksSent(call[1], call[1].changes[1][1], "cumulative") = <<2>>
    /\ call[1].successful = <<call[1].changes[1][1]>>
    /\ call[1].failed = <<call[1].changes[2][1]>>
    /\ contributed[call[1].applied[1].tidyhq_id] = 2

\* C15: the debt read for a contact is max(stored debt - total, 0): never
\* negative, and 0 once the hours of the contact have reached the stored debt.
C15_DebtFloor ==
    \A tidyhq_id \in Directory0.contacts :
        LET owed == StoredDebt(tidyhq_id) - TotalOf(volunteer_hours, tidyhq_id)
        IN  /\ get_debt(tidyhq_id, volunteer_hours) = IF owed > 0 THEN owed ELSE 0
            /\ get_debt(tidyhq_id, volunteer_hours) >= 0
            /\ TotalOf(volunteer_hours, tidyhq_id) >= StoredDebt(tidyhq_id)
               => get_debt(tidyhq_id, volunteer_hours) = 0

\* A contact with one hour of debt stored has volunteered two hours.
C15_Witness ==
    /\ StoredDebt("1") = 1
    /\ TotalOf(volunteer_hours, "1") = 2
    /\ get_debt("1", volunteer_hours) = 0

\* C18: for a contact without record get_total, get_specific_month and
\* get_debt return 0; the reward checks that read them for such a contact go
\* on to add_hours and create no record themselves.
C18_UnknownReadsZero ==
    /\ [](\A tidyhq_id \in Directory0.contacts \cup {None} :
            tidyhq_id \notin DOMAIN volunteer_hours =>
                /\ get_total(tidyhq_id, volunteer_hours) = 0
                /\ get_debt(tidyhq_id, volunteer_hours) = 0
                /\ \A month \in Dates :
                      get_specific_month(tidyhq_id, volunteer_hours, month) = 0)
    /\ [][\A t \in Threads :
            /\ call[t].pc \in {"monthly", "cumulative"}
            /\ call'[t] # call[t]
            /\ call[t].tidyhq_id \notin DOMAIN volunteer_hours
            => /\ volunteer_hours' = volunteer_hours
               /\ call'[t].pc = IF call[t].pc = "monthly" THEN "cumulative" ELSE "apply"
               /\ Len(call'[t].dm) - Len(call[t].dm)
                  = Cardinality({r \in Tiers(call[t].pc) :
                                    r <= call[t].changes[call[t].i][2]})]_vars

\* The monthly check of an hour for a contact without record: the month was
\* read as 0 and threshold 1 announced, the ledger still has no record.
C18_Witness ==
    /\ call[1].pc = "cumulative"
    /\ call[1].tidyhq_id \notin DOMAIN volunteer_hours
    /\ call[1].changes[call[1].i][2] = 1
    /\ UnlocksSent(call[1], call[1].changes[call[1].i][1], "monthly") = <<1>>

\* C19: no step removes a record, a month key or a stored debt, and a record
\* that is there changes only in the add_hours called for its contact.
C19_AppendOnly ==
    [][\A tidyhq_id \in DOMAIN volunteer_hours :
          /\ tidyhq_id \in DOMAIN volunteer_hours'
          /\ DOMAIN volunteer_hours[tidyhq_id].months
             \subseteq DOMAIN volunteer_hours'[tidyhq_id].months
          /\ DOMAIN volunteer_hours[tidyhq_id] \subseteq DOMAIN volunteer_hours'[tidyhq_id]
          /\ volunteer_hours'[tidyhq_id] # volunteer_hours[tidyhq_id] =>
                \E t \in Threads :
                    /\ call[t].pc = "apply" /\ call'[t].pc = "ack"
                    /\ call[t].tidyhq_id = tidyhq_id]_vars

\* A record created on the way holds hours in both months and a debt, after
\* several calls.
C19_Witness ==
    /\ call[1].pc = "idle"
    /\ "1" \in DOMAIN volunteer_hours
    /\ DOMAIN volunteer_hours["1"].months = Periods
    /\ "debt" \in DOMAIN volunteer_hours["1"]
    /\ TotalOf(volunteer_hours, "1") = 3

\* A record without hours and without debt.
Blank(record) == record.months = <<>> /\ "debt" \notin DOMAIN record

\* C16: a contact has a record if and only if hours or debt have been
\* recorded for it: every record holds a month or a debt, and every contact
\* that hours were added for has a record.
C16_RecordIffRecorded ==
    \A tidyhq_id \in Directory0.contacts :
        /\ tidyhq_id \in DOMAIN volunteer_hours => ~Blank(volunteer_hours[tidyhq_id])
        /\ contributed[tidyhq_id] # 0 => tidyhq_id \in DOMAIN volunteer_hours

\* C16 as amended: every contact that hours or debt were recorded for has a
\* record, holding the month or the debt; the records of start-up stay; and a
\* record is only ever there for a contact of start-up or one that a Slack
\* user is linked to.
C16_RecordedHaveRecord ==
    /\ [](\A tidyhq_id \in Directory0.contacts :
            tidyhq_id \in DOMAIN InitialHours \/ contributed[tidyhq_id] # 0
                => tidyhq_id \in DOMAIN volunteer_hours)
    /\ [](\A tidyhq_id \in DOMAIN volunteer_hours :
            \/ tidyhq_id \in DOMAIN InitialHours
            \/ \E slack_id \in Handles : tidyhq_live.slack[slack_id] = tidyhq_id)
    /\ [][\A t \in Threads :
            call[t].pc = "apply" /\ call'[t].pc = "ack" =>
                /\ call[t].tidyhq_id \in DOMAIN volunteer_hours'
                /\ ~Blank(volunteer_hours'[call[t].tidyhq_id])]_vars

\* Debt, and no hours, was recorded for a contact that had no record before.
C16_Witness ==
    /\ call[1].pc = "ack"
    /\ call[1].debt
    /\ "1" \in DOMAIN volunteer_hours
    /\ volunteer_hours["1"].months = <<>>
    /\ StoredDebt("1") = 1
    /\ contributed["1"] = 0

\* C17: generate_new leaves the ledger and hours.json alone for a contact
\* with a record, creates a record without months and debt for a contact of
\* the directory, and fails, creating nothing, for an id the directory does
\* not hold; add_hours for such an id fails and leaves the ledger unchanged.
C17_EnsureOrNotFound ==
    [][call'[1] # call[1] /\ call'[1].pc \in {"returned", "added", "raised"} =>
          LET tidyhq_id == call'[1].tidyhq_id
              ensure == call'[1].pc = "returned"
          IN  IF tidyhq_id \in DOMAIN volunteer_hours
              THEN ensure => UNCHANGED <<volunteer_hours, hours_json>>
              ELSE IF get_contact(tidyhq_id, tidyhq_cache)
              THEN /\ call'[1].pc # "raised"
                   /\ ensure =>
                         /\ DOMAIN volunteer_hours'
                            = DOMAIN volunteer_hours \cup {tidyhq_id}
                         /\ Blank(volunteer_hours'[tidyhq_id])
                         /\ get_debt(tidyhq_id, volunteer_hours') = 0
                         /\ \A other \in DOMAIN volunteer_hours :
                               volunteer_hours'[other] = volunteer_hours[other]
              ELSE /\ call'[1].pc = "raised"
                   /\ UNCHANGED <<volunteer_hours, hours_json>>]_vars

\* The calendar month before a period.
CalendarBefore(period) ==
    IF period[2] = 1 THEN <<period[1] - 1, 12>> ELSE <<period[1], period[2] - 1>>

\* The number of months of Q in unbroken calendar succession up to period.
RECURSIVE RunEndingAt(_, _)
RunEndingAt(Q, period) ==
    IF period \notin Q THEN 0 ELSE 1 + RunEndingAt(Q, CalendarBefore(period))

\* The streak values of a months mapping whose months with at least `least`
\* hours count.
RunsOf(months, least) ==
    LET Q == {k \in DOMAIN months : months[k] >= least}
        last == CHOOSE k \in DOMAIN months :
                    \A other \in DOMAIN months \ {k} : PeriodBefore(other, k)
        runs == {RunEndingAt(Q, k) : k \in Q} \cup {0}
    IN  [longest_streak |-> CHOOSE n \in runs : \A other \in runs : other <= n,
         current_streak |-> IF DOMAIN months = {} THEN 0 ELSE RunEndingAt(Q, last)]

\* C20: for the months taken in order, a month that counts continues the
\* run of the month before it in the calendar (January that of December) or
\* starts a run of 1, a month that does not count or is not there ends the
\* run; longest_streak is the longest run, current_streak the run at the last
\* month of the record, never above longest_streak.
C20_StreakWalk ==
    view.kind = "user_statistics" /\ view.tidyhq_id \in DOMAIN volunteer_hours =>
        LET months == volunteer_hours[view.tidyhq_id].months
            general == RunsOf(months, 1)
            badge == RunsOf(months, BadgeHours)
        IN  /\ view.streak.longest_streak = general.longest_streak
            /\ view.streak.current_streak = general.current_streak
            /\ view.badge_streak.longest_streak = badge.longest_streak
            /\ view.badge_streak.current_streak = badge.current_streak
            /\ view.streak.current_streak <= view.streak.longest_streak
            /\ view.badge_streak.current_streak <= view.badge_streak.longest_streak
            /\ months = (<<2025, 11>> :> 9 @@ <<2025, 12>> :> 0 @@ <<2026, 1>> :> 9)
               => /\ view.streak.current_streak = 1
                  /\ view.streak.longest_streak = 1

\* Three months with hours in a row across the turn of the year: both values
\* of the streak are 3.
C20_Witness ==
    /\ view.kind = "user_statistics"
    /\ view.tidyhq_id = "1"
    /\ volunteer_hours["1"].months
       = (<<2025, 11>> :> 9 @@ <<2025, 12>> :> 10 @@ <<2026, 1>> :> 9)
    /\ view.streak.current_streak = 3
    /\ view.streak.longest_streak = 3
    /\ view.badge_streak.current_streak = 0
    /\ view.badge_streak.longest_streak = 1

\* The run that ends at the last month of the mapping with at least `least`
\* hours, 0 when there is none.
RunAtLastCounting(months, least) ==
    LET Q == {k \in DOMAIN months : months[k] >= least}
        last == CHOOSE k \in Q : \A other \in Q \ {k} : PeriodBefore(other, k)
    IN  IF Q = {} THEN 0 ELSE RunEndingAt(Q, last)

\* C21: current_streak is the length of the run that ends at the most recent
\* month of the record that counts, also when later month keys follow it.
C21_CurrentAtLastCountingMonth ==
    view.kind = "user_statistics" /\ view.tidyhq_id \in DOMAIN volunteer_hours =>
        LET months == volunteer_hours[view.tidyhq_id].months
        IN  /\ view.streak.current_streak = RunAtLastCounting(months, 1)
            /\ view.badge_streak.current_streak = RunAtLastCounting(months, BadgeHours)

\* C22: a month counts for the badge streak iff it holds at least ten hours
\* and for the general streak iff it holds more than none, and the badge
\* streak values are never above the general ones.
C22_BadgeThreshold ==
    view.kind = "user_statistics" /\ view.tidyhq_id \in DOMAIN volunteer_hours =>
        LET months == volunteer_hours[view.tidyhq_id].months
        IN  /\ view.badge_streak.longest_streak > 0
               <=> \E k \in DOMAIN months : months[k] >= BadgeHours
            /\ view.streak.longest_streak > 0
               <=> \E k \in DOMAIN months : months[k] > 0
            /\ view.badge_streak.longest_streak <= view.streak.longest_streak
            /\ view.badge_streak.current_streak <= view.streak.current_streak
            /\ \A k \in StreakPeriods :
                  /\ months = (k :> BadgeHours - 1)
                     => view.badge_streak.longest_streak = 0
                        /\ view.streak.longest_streak = 1
                  /\ months = (k :> BadgeHours)
                     => view.badge_streak.longest_streak = 1
                        /\ view.badge_streak.current_streak = 1

\* Nine hours, ten and ten in three months in a row: a general streak of 3
\* and a badge streak of 2.
C22_Witness ==
    /\ view.kind = "user_statistics"
    /\ view.tidyhq_id = "1"
    /\ volunteer_hours["1"].months
       = (<<2025, 11>> :> 9 @@ <<2025, 12>> :> 10 @@ <<2026, 1>> :> 10)
    /\ view.streak.current_streak = 3
    /\ view.badge_streak.current_streak = 2
    /\ view.badge_streak.longest_streak = 2

RECURSIVE SumOfValues(_)
SumOfValues(pairs) ==
    IF pairs = <<>> THEN 0 ELSE Head(pairs)[2] + SumOfValues(Tail(pairs))

\* The hours all records hold for a period.
RECURSIVE HoursInPeriod(_, _, _)
HoursInPeriod(vh, ids, period) ==
    IF ids = {} THEN 0
    ELSE LET tidyhq_id == CHOOSE x \in ids : TRUE
         IN  (IF period \in DOMAIN vh[tidyhq_id].months
              THEN vh[tidyhq_id].months[period] ELSE 0)
             + HoursInPeriod(vh, ids \ {tidyhq_id}, period)

\* The totals of the records of a set, added up.
RECURSIVE TotalsOf(_, _)
TotalsOf(vh, ids) ==
    IF ids = {} THEN 0
    ELSE LET tidyhq_id == CHOOSE x \in ids : TRUE
         IN  get_total(tidyhq_id, vh) + TotalsOf(vh, ids \ {tidyhq_id})

\* C24: the result of get_overall_statistics has total_hours equal to the sum
\* of get_total over all records and total_volunteers equal to the number of
\* records; hours_by_month has one entry for each period any record holds,
\* with the sum of that period's hours over all records, in strictly
\* descending order of period; and its values add up to total_hours.
C24_OverallValues ==
    view.kind = "statistics" =>
        LET stats == view.stats
            by_month == stats.hours_by_month
        IN  /\ stats.total_hours = TotalsOf(volunteer_hours, DOMAIN volunteer_hours)
            /\ stats.total_volunteers = Cardinality(DOMAIN volunteer_hours)
            /\ {by_month[k][1] : k \in 1..Len(by_month)}
                   = UNION {DOMAIN volunteer_hours[tidyhq_id].months :
                               tidyhq_id \in DOMAIN volunteer_hours}
            /\ \A k \in 1..Len(by_month) :
                   by_month[k][2] = HoursInPeriod(volunteer_hours,
                                                  DOMAIN volunteer_hours, by_month[k][1])
            /\ \A j, k \in 1..Len(by_month) :
                   j < k => 12 * by_month[k][1][1] + by_month[k][1][2]
                               < 12 * by_month[j][1][1] + by_month[j][1][2]
            /\ SumOfValues(by_month) = stats.total_hours

C24_Witness ==
    /\ view.kind = "statistics"
    /\ Len(view.stats.hours_by_month) = 2
    /\ view.stats.hours_by_month[1][2] = 2
    /\ view.stats.hours_by_month[2][2] = 1
    /\ view.stats.total_volunteers = 3

\* The place of a contact id in the order the ledger was iterated in.
PlaceIn(keys, tidyhq_id) == CHOOSE k \in 1..Len(keys) : keys[k] = tidyhq_id

\* Entries by total hours descending, entries of one total in ledger order.
RankedStably(entries, keys) ==
    \A j, k \in 1..Len(entries) :
        j < k => \/ entries[j].total_hours > entries[k].total_hours
                 \/ /\ entries[j].total_hours = entries[k].total_hours
                    /\ PlaceIn(keys, entries[j].tidyhq_id)
                           < PlaceIn(keys, entries[k].tidyhq_id)

\* The entries are those of the records of ids, each once, with its total.
ListsExactly(entries, ids) ==
    /\ {entries[k].tidyhq_id : k \in 1..Len(entries)} = ids
    /\ Len(entries) = Cardinality(ids)
    /\ \A k \in 1..Len(entries) :
           entries[k].total_hours = get_total(entries[k].tidyhq_id, volunteer_hours)

\* C25: a leaderboard lists the volunteers with hours by total hours
\* descending, volunteers of one total in the order the ledger is iterated.
\* The non-admin leaderboard lists no admin and ends with one aggregate entry
\* whose total is the sum of the totals of all admins, so that its totals add
\* up to the total hours of the ledger.
C25_Leaderboards ==
    view.kind \in {"statistics", "leaderboards"} =>
        LET all == view.all_volunteers
            listed == view.non_admin_volunteers
            front == SubSeq(listed, 1, Len(listed) - 1)
            with_hours == {tidyhq_id \in DOMAIN volunteer_hours :
                              get_total(tidyhq_id, volunteer_hours) > 0}
            admins == {tidyhq_id \in DOMAIN volunteer_hours :
                          check_for_groups(tidyhq_id, tidyhq_cache)}
        IN  /\ ListsExactly(all, with_hours)
            /\ RankedStably(all, view.keys)
            /\ Len(listed) >= 1
            /\ ListsExactly(front, with_hours \ admins)
            /\ RankedStably(front, view.keys)
            /\ listed[Len(listed)].tidyhq_id = "committee"
            /\ listed[Len(listed)].total_hours = TotalsOf(volunteer_hours, admins)
            /\ SumOver([k \in 1..Len(listed) |-> listed[k].total_hours],
                       1..Len(listed))
                   = TotalsOf(volunteer_hours, DOMAIN volunteer_hours)

C25_Witness ==
    /\ view.kind = "leaderboards"
    /\ view.keys = <<"8", "1", "7">>
    /\ Len(view.all_volunteers) = 3
    /\ view.all_volunteers[1].tidyhq_id = "7"
    /\ view.all_volunteers[2].tidyhq_id = "8"
    /\ view.all_volunteers[3].tidyhq_id = "1"
    /\ view.all_volunteers[2].total_hours = view.all_volunteers[3].total_hours
    /\ Len(view.non_admin_volunteers) = 2
    /\ view.non_admin_volunteers[2].total_hours = 3

\* The DMs of a kind a call has sent to a volunteer.
DMsTo(c, volunteer, kind) ==
    SelectSeq(c.dm, LAMBDA m : m.to = volunteer /\ m.kind = kind)

\* C26: an item that succeeds has, when it is recorded, brought its volunteer
\* exactly one acknowledgement, of the delta applied, and exactly one unlock
\* DM for every threshold the applied delta took the month's hours or the
\* all-time total across (none for debt); a volunteer has one acknowledgement
\* when among the successes and none otherwise, and a failed item's volunteer
\* has no DM of either kind.
C26_OneAckOneUnlockPerCrossing ==
    /\ [](\A t \in Threads, volunteer \in Handles :
            /\ Len(DMsTo(call[t], volunteer, "ack"))
                   = IF volunteer \in Range(call[t].successful) THEN 1 ELSE 0
            /\ volunteer \in Range(call[t].failed) =>
                   DMsTo(call[t], volunteer, "unlock") = <<>>)
    /\ [][\A t \in Threads :
            call[t].pc = "ack" /\ call'[t].pc # "ack" =>
                LET c == call[t]
                    volunteer == c.changes[c.i][1]
                    d == c.changes[c.i][2]
                    month == MonthOf(volunteer_hours', c.tidyhq_id,
                                     strftime(c.volunteer_date))
                    total == TotalOf(volunteer_hours', c.tidyhq_id)
                IN  /\ volunteer \in Range(call'[t].successful)
                    /\ DMsTo(call'[t], volunteer, "ack")
                           = <<[to |-> volunteer, kind |-> "ack",
                                scope |-> IF c.debt THEN "debt" ELSE "hours",
                                hours |-> d]>>
                    /\ UnlocksSent(call'[t], volunteer, "monthly")
                           = IF c.debt THEN <<>>
                             ELSE InOrder({r \in Tiers("monthly") :
                                              month - d < r /\ r <= month})
                    /\ UnlocksSent(call'[t], volunteer, "cumulative")
                           = IF c.debt THEN <<>>
                             ELSE InOrder({r \in Tiers("cumulative") :
                                              total - d < r /\ r <= total})]_vars

\* A batch of two: the first handle failed, the second succeeded and crossed
\* two monthly thresholds with one delta.
C26_Witness ==
    /\ call[1].pc = "done"
    /\ Len(call[1].failed) = 1
    /\ Len(call[1].successful) = 1
    /\ Len(DMsTo(call[1], call[1].successful[1], "ack")) = 1
    /\ UnlocksSent(call[1], call[1].successful[1], "monthly") = <<1, 2>>

\* The notices of a kind a call has posted to the admin channel, in order.
Posted(c, kind) == SelectSeq(c.admin, LAMBDA n : n.kind = kind)

\* The Slack ids of a batch.
BatchOf(c) == {c.changes[k][1] : k \in DOMAIN c.changes}

C28_RunsToCompletion ==
    \A t \in Threads :
        call[t].pc \notin {"idle", "resolve", "monthly", "cumulative", "apply", "ack"} =>
            \A k \in DOMAIN call[t].changes :
                LET volunteer == call[t].changes[k][1]
                IN  /\ volunteer \in Range(call[t].successful) \cup Range(call[t].failed)
                    /\ volunteer \notin Range(call[t].successful) \cap Range(call[t].failed)

\* The surface each generator's blocks are for.
Surface == [app_home |-> "home", reward_tier |-> "message",
            reward_notification |-> "message", modal_add_hours |-> "modal"]

\* C29: a block list returned by app_home, reward_tier, reward_notification
\* or modal_add_hours has been handed to slack.misc.validate by the generator,
\* with the surface home, message, message and modal respectively.
C29_GeneratorsValidate ==
    view.kind = "blocks" =>
        \E k \in DOMAIN view.result.validate :
            view.result.validate[k]
                = [blocks |-> view.result.block_list,
                   surface |-> Surface[view.generator]]

\* C30: the statistics are computed also for a ledger with a month key that
\* names no month, whatever hours that bucket holds: neither the statistics
\* of one volunteer nor the overall statistics end in the ValueError of the
\* key.
C30_MalformedKeyTolerated ==
    view.kind = "raised" => view.error # "ValueError"

\* C31: every mutation writes the whole ledger.  At the step where add_hours
\* returns, or where generate_new returns having created a record, hours.json
\* holds exactly the in-memory ledger; and as long as no write has failed the
\* file and the in-memory ledger agree in every state.
C31_WholeFileSnapshot ==
    /\ []((\A t \in Threads : call[t].pc # "raised") =>
              hours_json = <<volunteer_hours>>)
    /\ [][(volunteer_hours' # volunteer_hours
              /\ \A t \in Threads : call'[t].pc # "raised") =>
                hours_json' = <<volunteer_hours'>>]_vars

\* add_hours has returned for a contact without a record before: the file
\* holds the new record with its hours and the record that was there.
C31_Witness ==
    /\ call[1].pc = "ack"
    /\ DOMAIN volunteer_hours = {"1", "7"}
    /\ get_total("1", volunteer_hours) = 2
    /\ hours_json = <<volunteer_hours>>

\* The debt a record stores, 0 without the record or the field.
DebtStored(vh, tidyhq_id) ==
    IF tidyhq_id \in DOMAIN vh /\ "debt" \in DOMAIN vh[tidyhq_id]
    THEN vh[tidyhq_id].debt ELSE 0

\* The streak numbers of a contact.
StreakNumbers(vh, tidyhq_id) ==
    LET streak == get_volunteer_streak(tidyhq_id, vh)
        badge_streak == get_badge_streak(tidyhq_id, vh)
    IN  <<streak.longest_streak, streak.current_streak,
          badge_streak.longest_streak, badge_streak.current_streak>>

\* C32: an add_hours with debt changes, of what the target contact's record
\* holds, only the stored debt: every month, the total and the streaks read
\* as before.  Without debt it changes only the bucket of the period: the
\* stored debt and every other month read as before.  Either way the records
\* of all other contacts are unchanged and none is added or removed.
C32_Frame ==
    [][\A t \in Threads :
          call[t].pc = "apply" /\ call'[t].pc = "ack" =>
              LET c == call[t]
                  period == strftime(c.volunteer_date)
              IN  /\ DOMAIN volunteer_hours' = DOMAIN volunteer_hours \cup {c.tidyhq_id}
                  /\ \A other \in DOMAIN volunteer_hours \ {c.tidyhq_id} :
                         volunteer_hours'[other] = volunteer_hours[other]
                  /\ \A p \in Periods \cup DOMAIN volunteer_hours'[c.tidyhq_id].months :
                         c.debt \/ p # period =>
                             MonthOf(volunteer_hours', c.tidyhq_id, p)
                             = MonthOf(volunteer_hours, c.tidyhq_id, p)
                  /\ c.debt =>
                         /\ get_total(c.tidyhq_id, volunteer_hours')
                            = get_total(c.tidyhq_id, volunteer_hours)
                         /\ StreakNumbers(volunteer_hours', c.tidyhq_id)
                            = StreakNumbers(volunteer_hours, c.tidyhq_id)
                  /\ ~c.debt =>
                         DebtStored(volunteer_hours', c.tidyhq_id)
                         = DebtStored(volunteer_hours, c.tidyhq_id)]_vars

\* Debt was added for a contact that has hours in two months: the hours are
\* where they were, the debt is stored.
C32_Witness ==
    /\ call[1].pc = "ack"
    /\ call[1].debt
    /\ DebtStored(volunteer_hours, call[1].tidyhq_id) = 2
    /\ MonthOf(volunteer_hours, call[1].tidyhq_id, <<2025, 12>>) = 1
    /\ MonthOf(volunteer_hours, call[1].tidyhq_id, <<2026, 1>>) = 2

\* The number of a day, counted from the first day of 2023.
RECURSIVE DayNumber(_)
DayNumber(date) ==
    IF date.month = 1
    THEN (IF date.year = 2023 THEN 0
          ELSE DayNumber([year |-> date.year - 1, month |-> 12, day |-> 31]))
         + date.day
    ELSE DayNumber([year |-> date.year, month |-> date.month - 1,
                    day |-> DaysIn(date.year, date.month - 1)])
         + date.day

\* The days of the calendar from 2023 to 2025.
Calendar ==
    UNION {{[year |-> year, month |-> month, day |-> day] :
               day \in 1..DaysIn(year, month)} :
           year \in 2023..2025, month \in 1..12}

RECURSIVE HasEmptyText(_)
HasEmptyText(value) ==
    \/ /\ value.type = "dict"
       /\ \E key \in DOMAIN value.items :
              \/ /\ key = "text"
                 /\ value.items[key].type = "str"
                 /\ value.items[key].value = ""
              \/ HasEmptyText(value.items[key])
    \/ /\ value.type = "list"
       /\ \E k \in DOMAIN value.elements : HasEmptyText(value.elements[k])

\* C34: validate, called with a surface it knows, returns False for every
\* block list with a field named text that holds the empty string, at any
\* depth of a block: in a dict of the block or in an element of a list.
C34_EmptyTextRejected ==
    view.kind = "validate" /\ view.surface \in {"modal", "home", "message", "msg"}
    /\ (\E k \in DOMAIN view.blocks : HasEmptyText(view.blocks[k])) =>
        view.result = Returned(FALSE)

\* C35: in the time_debt branch of handle_training_tracker_messages the
\* "added debt" confirmation is in the admin channel only when the debt was
\* recorded in the ledger for the volunteer; for a volunteer that was not
\* resolved to a contact there is no confirmation and no record, only the
\* warning or the notice of the failure.
C35_ConfirmationOnlyWhenRecorded ==
    \A t \in Threads :
        LET c == call[t]
        IN  c.pc = "replied" =>
                /\ Posted(c, "tracker_reply") # <<>> =>
                       /\ Len(c.applied) = 1
                       /\ c.applied[1].volunteer = Posted(c, "tracker_reply")[1].who[1]
                /\ c.applied = <<>> =>
                       /\ Posted(c, "tracker_reply") = <<>>
                       /\ Posted(c, "warning") # <<>> \/ Posted(c, "failed") # <<>>

\* C36: get_overall_statistics returns a result for every ledger, the empty
\* one and one whose records are all of admins included: the statistics
\* modal is never left by a division by zero.
C36_OverallNeverDividesByZero ==
    view.kind = "raised" => view.stats # Raised("ZeroDivisionError")

\* C37: a contact is listed by get_all_debt if and only if get_debt is above
\* zero for it, once; the list is in descending order of the debt it reports;
\* and the debt it reports for a contact is the debt get_debt reports.
C37_DebtListAgreesWithGetDebt ==
    view.kind = "get_all_debt" =>
        LET listed == view.volunteers_with_debt
        IN  /\ {listed[k].tidyhq_id : k \in DOMAIN listed}
                   = {tidyhq_id \in DOMAIN volunteer_hours :
                         get_debt(tidyhq_id, volunteer_hours) > 0}
            /\ \A j, k \in DOMAIN listed :
                   /\ j # k => listed[j].tidyhq_id # listed[k].tidyhq_id
                   /\ j < k => listed[j].total_debt >= listed[k].total_debt
            /\ \A k \in DOMAIN listed :
                   listed[k].total_debt
                       = get_debt(listed[k].tidyhq_id, volunteer_hours)

\* The sections of a submitted form that select the volunteer and carry hours
\* other than zero.
SectionsFor(data, volunteer) ==
    {count \in 1..10 : /\ volunteer \in Range(data[count].selected_users)
                       /\ data[count].value \notin {<<>>, <<0>>}}

\* C38: handle_bulk_hours_submission scans the sections 1 to 10; the hours
\* it submits for a volunteer are the sum of the hours of the sections that
\* select the volunteer and carry hours other than zero, sections without
\* volunteers or hours adding nothing; each such volunteer is one item of
\* the mapping, and the mapping goes into one call of
\* add_hours_with_notifications, entered in the step of the submission and
\* not changed while the call runs.
C38_BulkCollation ==
    /\ [](view.kind = "bulk" /\ call[1].pc # "idle" =>
            LET c == call[1]
            IN  /\ DOMAIN view.data = 1..10
                /\ BatchOf(c) = {volunteer \in Handles :
                                    SectionsFor(view.data, volunteer) # {}}
                /\ Injective([k \in DOMAIN c.changes |-> c.changes[k][1]])
                /\ \A k \in DOMAIN c.changes :
                       c.changes[k][2]
                           = SumOver([count \in 1..10 |-> view.data[count].value[1]],
                                     SectionsFor(view.data, c.changes[k][1])))
    /\ [][/\ (view' # view =>
                  call[1].pc = "idle" /\ call'[1].pc \in {"resolve", "summary"})
           /\ (call[1].pc # "idle" /\ call'[1].pc # "idle" =>
                  call'[1].changes = call[1].changes /\ view' = view)]_vars

\* A form whose first and last sections select the same volunteer with hours,
\* the others nobody: one item with the sum, applied.
C38_Witness ==
    /\ view.kind = "bulk"
    /\ view.data[1] = [selected_users |-> <<"UA">>, value |-> <<1>>]
    /\ view.data[2] = EmptySection
    /\ view.data[10] = [selected_users |-> <<"UX", "UA">>, value |-> <<2>>]
    /\ call[1].pc = "done"
    /\ call[1].changes = <<<<"UA", 3>>, <<"UX", 2>>>>
    /\ call[1].successful = <<"UA">>

\* C39: volunteer_badge is idempotent per month.  When the field holds the
\* year and month of the timestamp already it returns True and writes
\* nothing; otherwise it writes the dates of the field and the new one, in
\* ascending order.  A field that starts without a month twice never holds
\* a month twice, whatever calls are made.
C39_BadgeOncePerMonth ==
    /\ Injective(view.value)
    /\ view.kind = "volunteer_badge" =>
           IF strftime_yymm(view.timestamp) \in Range(view.field_str)
           THEN view.returned = TRUE /\ view.written = <<>>
           ELSE /\ Len(view.written) = 1
                /\ Range(view.written[1])
                       = Range(view.field_str) \cup {strftime_yymm(view.timestamp)}
                /\ Len(view.written[1]) = Len(view.field_str) + 1
                /\ \A j, k \in DOMAIN view.existing_dates :
                       j < k => ~Earlier(view.existing_dates[k],
                                         view.existing_dates[j])

====
